---- MODULE Spec2Model ----
(***************************************************************************)
(* Model of the spot storage service (SpotStorageService), its Redis       *)
(* cache helpers and the POST /spots route of the SK8 spot service.        *)
(*                                                                         *)
(* A JavaScript object is a function from field names to values; a field   *)
(* that is undefined or null is simply not in the DOMAIN.  A value that    *)
(* may be null is a sequence: <<>> for null, <<v>> for v.  Thrown Errors   *)
(* and returned values are tagged tuples.                                  *)
(***************************************************************************)
EXTENDS Integers, Sequences, FiniteSets, TLC

VARIABLES
    db,      \* the rows of the 'spots' table
    cache,   \* the Redis keyspace: key -> JSON string
    redis,   \* "none": no REDIS_URL; "ok": commands succeed; "down": commands reject
    now,     \* the wall clock, in abstract instants
    nextId,  \* stands for the next value uuidv4() hands out
    last,    \* the log of the last completed call
    mail,    \* the analysis-complete notification requests and their state
    verifyCalls, \* the ids verifySpot has been invoked with
    reviews      \* the reviews table: one row per review

vars == <<db, cache, redis, now, nextId, last, mail, verifyCalls, reviews>>

----------------------------------------------------------------------------
(* Bounds of the model.                                                    *)

MaxSpots == 2
MaxClock == 2
MaxRows == 25

----------------------------------------------------------------------------
(* JavaScript objects.                                                     *)

Null == <<>>
Obj == <<>>
Has(o, k) == k \in DOMAIN o
Merge(a, b) == [k \in DOMAIN a \cup DOMAIN b |-> IF k \in DOMAIN b THEN b[k] ELSE a[k]]
Without(o, ks) == [k \in DOMAIN o \ ks |-> o[k]]
Only(o, ks) == [k \in DOMAIN o \cap ks |-> o[k]]
\* the truthiness test `if (o.k)` for a number, a string and a boolean field
TruthyNum(o, k) == Has(o, k) /\ o[k] # 0
TruthyStr(o, k) == Has(o, k) /\ o[k] # ""
TruthyBool(o, k) == Has(o, k) /\ o[k] = TRUE

\* the body applied to a value that is computed once
Let(value, Body(_)) == CHOOSE result \in {Body(x) : x \in {value}} : TRUE

Ok(v) == <<"ok", v>>
Throw(msg) == <<"throw", msg>>
IsOk(r) == r[1] = "ok"
\* `throw new Error(`${prefix}: ${error.message}`)`
Wrap(prefix, msg) == <<prefix>> \o msg

----------------------------------------------------------------------------
(* Timestamps: the service writes ISO strings, the datastore answers in    *)
(* its own timestamptz rendering, formatSpotData renders ISO again.        *)

toISOString(t) == <<"iso", t[2]>>
DbTime(t) == <<"tz", t[2]>>
Instant(t) == t[2]

----------------------------------------------------------------------------
(* config/cache: the Redis helpers.  Values are stored as JSON strings.    *)

JSONstringify(v) == <<"json", v>>
JSONparse(s) == s[2]

\* variant: the value is never stored
setCache_Dropped(c, rd, key, value) == c

setCache(c, rd, key, value) ==
    IF rd = "none" THEN c
    ELSE IF rd = "down" THEN c
    ELSE [k \in DOMAIN c \cup {key} |-> IF k = key THEN JSONstringify(value) ELSE c[k]]

\* variant: a rejected command is not caught
getCache_Uncaught(c, rd, key) ==
    IF rd = "none" THEN Ok(Null)
    ELSE IF rd = "down" THEN Throw(<<"Redis cache get error">>)
    ELSE IF key \in DOMAIN c THEN Ok(<<JSONparse(c[key])>>) ELSE Ok(Null)

\* resolves to the parsed value or null; a rejected command is caught and logged
getCache(c, rd, key) ==
    IF rd = "none" THEN Ok(Null)
    ELSE IF rd = "down" THEN Ok(Null)
    ELSE IF key \in DOMAIN c THEN Ok(<<JSONparse(c[key])>>) ELSE Ok(Null)

\* variant: the entry is left in the cache
deleteCache_Kept(c, rd, key) == c

deleteCache(c, rd, key) ==
    IF rd = "none" THEN c
    ELSE IF rd = "down" THEN c
    ELSE [k \in DOMAIN c \ {key} |-> c[k]]

\* a key is <<prefix, rest>>; the pattern 'spots:*' is the prefix "spots"
clearCachePattern(c, rd, pattern) ==
    IF rd = "none" THEN c
    ELSE IF rd = "down" THEN c
    ELSE [k \in {x \in DOMAIN c : x[1] # pattern} |-> c[k]]

----------------------------------------------------------------------------
(* The datastore (Supabase/PostgREST) as the service uses it.  A response  *)
(* is <<"data", ...>> or <<"error", code, message>>.  env.errQ and         *)
(* env.errW say whether the datastore fails the call's query or its write. *)

DbError(code) == <<"error", code, "db-message">>
IsError(resp) == resp[1] = "error"

\* .from('spots').select('*').eq('id', id).single()
DbSelectSingle(d, id, err) ==
    LET found == {r \in d : r.id = id} IN
    IF err THEN DbError("XX000")
    ELSE IF Cardinality(found) # 1 THEN DbError("PGRST116")
    ELSE <<"data", CHOOSE r \in found : TRUE>>

\* the value a row is ordered by; NULL sorts as the largest value
SortKey(r, f) ==
    IF ~Has(r, f) THEN <<1, 0>>
    ELSE IF f \in {"created_at", "updated_at"} THEN <<0, Instant(r[f])>>
    ELSE <<0, r[f]>>

KeyLess(a, b) == a[1] < b[1] \/ (a[1] = b[1] /\ a[2] < b[2])

\* r comes before o under .order(f, { ascending }); ties fall in id order
Before(r, o, f, ascending) ==
    LET kr == SortKey(r, f)
        ko == SortKey(o, f)
    IN IF kr = ko THEN r.id <= o.id
       ELSE IF ascending THEN KeyLess(kr, ko) ELSE KeyLess(ko, kr)

\* the rows of S in the order of .order(f, { ascending })
DbOrder(S, f, ascending) ==
    LET rank == [r \in S |-> Cardinality({o \in S : Before(o, r, f, ascending)})]
    IN [i \in 1..Cardinality(S) |-> CHOOSE r \in S : rank[r] = i]

Min(a, b) == IF a <= b THEN a ELSE b
Abs(x) == IF x < 0 THEN -x ELSE x

\* .range(from, to): rows from..to of the ordered matches, 0-based, inclusive
DbRange(rows, from, to) == SubSeq(rows, from + 1, Min(to + 1, Len(rows)))

\* distance in km between two points; one coordinate unit of the model is 100 km
DistKm(lat1, lon1, lat2, lon2) == 100 * (Abs(lat1 - lat2) + Abs(lon1 - lon2))

\* rpc('find_spots_near', { lat, lon, radius_km }): the rows within the radius
find_spots_near(d, lat, lon, radius_km) ==
    {r \in d : /\ Has(r, "latitude") /\ Has(r, "longitude")
               /\ DistKm(r.latitude, r.longitude, lat, lon) <= radius_km}

\* the row as the datastore hands it back: timestamps in its own rendering
DbStored(row) ==
    Merge(row, [k \in DOMAIN row \cap {"created_at", "updated_at"} |-> DbTime(row[k])])

----------------------------------------------------------------------------
(* SpotStorageService.                                                     *)

DefaultPage == 1
DefaultLimit == 20
DefaultRadius == 10
DefaultScore == 5

\* the outcome of a service call: the cache it leaves, what it returns or
\* throws, and what it asked of the datastore and of the cache
Outcome(d, c, out, queries, writes, sets, hit) ==
    [db |-> d, cache |-> c, out |-> out, queries |-> queries, writes |-> writes,
     sets |-> sets, hit |-> hit]

\* variant: a row without coordinates is formatted like any other
formatSpotData_Unchecked(data) ==
    Ok(Merge(Without(data, {"latitude", "longitude"}),
             [location |-> Only(data, {"latitude", "longitude"}),
              created_at |-> toISOString(data.created_at),
              updated_at |-> toISOString(data.updated_at)]))

formatSpotData(data) ==
    IF ~TruthyNum(data, "latitude") \/ ~TruthyNum(data, "longitude")
    THEN Throw(<<"Spot has no location data", ToString(data.id)>>)
    ELSE Ok(Merge(Without(data, {"latitude", "longitude"}),
                  [location |-> [latitude |-> data.latitude, longitude |-> data.longitude],
                   created_at |-> toISOString(data.created_at),
                   updated_at |-> toISOString(data.updated_at)]))

\* variant: the list entries are left in place
invalidateSpotCaches_Skipped(c, rd) == c

invalidateSpotCaches(c, rd) == clearCachePattern(c, rd, "spots")

\* variant: "no rows" is treated like any other datastore error
getSpotByIdNotFound_Rethrown(d, c) ==
    Outcome(d, c, Throw(<<"Failed to get spot", "Database error", "db-message">>),
            1, 0, 0, FALSE)

\* variant: the missing row is written to the cache as well
getSpotByIdNotFound_Cached(d, c) == Outcome(d, c, Ok(Null), 1, 0, 1, FALSE)

\* the datastore's "no rows" answer (PGRST116): null, and nothing cached
getSpotByIdNotFound(d, c) == Outcome(d, c, Ok(Null), 1, 0, 0, FALSE)

getSpotById(d, c, rd, id, env) ==
    LET key == <<"spot", id>>
        cachedSpot == getCache(c, rd, key)
        resp == DbSelectSingle(d, id, env.errQ)
        formatted == formatSpotData(resp[2])
    IN IF ~IsOk(cachedSpot)
       THEN Outcome(d, c, Throw(Wrap("Failed to get spot", cachedSpot[2])), 0, 0, 0, FALSE)
       ELSE IF cachedSpot[2] # Null THEN Outcome(d, c, Ok(cachedSpot[2]), 0, 0, 0, TRUE)
       ELSE IF IsError(resp)
       THEN IF resp[2] = "PGRST116" THEN getSpotByIdNotFound(d, c)
            ELSE Outcome(d, c, Throw(<<"Failed to get spot", "Database error", resp[3]>>),
                         1, 0, 0, FALSE)
       ELSE IF ~IsOk(formatted)
       THEN Outcome(d, c, Throw(Wrap("Failed to get spot", formatted[2])), 1, 0, 0, FALSE)
       ELSE Outcome(d, setCache(c, rd, key, formatted[2]), Ok(<<formatted[2]>>),
                    1, 0, 1, FALSE)

\* the options after destructuring with their defaults
Opt(options, k, default) == IF Has(options, k) THEN options[k] ELSE default

ceil(total, limit) == (total + limit - 1) \div limit

\* the chain of .eq/.gte filters getSpots adds to the query
RowMatches(r, options) ==
    LET o == Merge([status |-> "active"], options) IN
    /\ TruthyStr(o, "type") => (Has(r, "type") /\ r.type = o.type)
    /\ TruthyStr(o, "surface") => (Has(r, "surface") /\ r.surface = o.surface)
    /\ TruthyStr(o, "difficulty") => (Has(r, "difficulty") /\ r.difficulty = o.difficulty)
    /\ TruthyBool(o, "verified") => (Has(r, "verified") /\ r.verified = o.verified)
    /\ TruthyStr(o, "status") => (Has(r, "status") /\ r.status = o.status)
    /\ TruthyNum(o, "minSkateabilityScore") =>
           (Has(r, "skateability_score") /\ r.skateability_score >= o.minSkateabilityScore)
    /\ TruthyStr(o, "userId") => (Has(r, "user_id") /\ r.user_id = o.userId)

\* the rows the query selects from, before the filters
QueryBase(d, options) ==
    IF Has(options, "nearLocation")
    THEN find_spots_near(d, options.nearLocation.latitude, options.nearLocation.longitude,
                         Opt(options, "radius", DefaultRadius))
    ELSE d

\* variant: the upper end of the range is one row too far
QueryRange_OffByOne(options) ==
    LET page == Opt(options, "page", DefaultPage)
        limit == Opt(options, "limit", DefaultLimit)
    IN <<(page - 1) * limit, page * limit>>

\* the range getSpots asks for
QueryRange(options) ==
    LET page == Opt(options, "page", DefaultPage)
        limit == Opt(options, "limit", DefaultLimit)
    IN <<(page - 1) * limit, page * limit - 1>>

\* the datastore's answer to the getSpots query: <<"data", rows, count>>;
\* count is the exact number of matches on the table path, null on the rpc path
DbQuery(d, options, err) ==
    LET matches == {r \in QueryBase(d, options) : RowMatches(r, options)}
        ordered == DbOrder(matches, Opt(options, "sortBy", "created_at"),
                           Opt(options, "sortOrder", "desc") = "asc")
        range == QueryRange(options)
    IN IF err THEN DbError("XX000")
       ELSE <<"data", DbRange(ordered, range[1], range[2]),
              IF Has(options, "nearLocation") THEN Null ELSE <<Cardinality(matches)>>>>

\* data.map(formatSpotData): the spots, or the first Error thrown
FormatAll(rows) ==
    LET f == [i \in 1..Len(rows) |-> formatSpotData(rows[i])]
        bad == {i \in 1..Len(rows) : ~IsOk(f[i])}
    IN IF bad = {} THEN Ok([i \in 1..Len(rows) |-> f[i][2]])
       ELSE f[CHOOSE i \in bad : \A j \in bad : i <= j]

\* variant: the error is swallowed and an empty page returned and cached
getSpotsQueryFailed_EmptyPage(d, c, message) ==
    LET empty == [data |-> <<>>, total |-> 0, page |-> DefaultPage, limit |-> DefaultLimit,
                  totalPages |-> 0]
    IN Outcome(d, c, Ok(empty), 1, 0, 1, FALSE)

\* the query answered with an error: nothing is cached, one wrapped Error is thrown
getSpotsQueryFailed(d, c, message) ==
    Outcome(d, c, Throw(<<"Failed to get spots", "Database error", message>>), 1, 0, 0, FALSE)

\* getSpots for an options object whose JSON text is `text`
getSpotsWithKey(d, c, rd, options, text, env) ==
    LET page == Opt(options, "page", DefaultPage)
        limit == Opt(options, "limit", DefaultLimit)
        cacheKey == <<"spots", text>>
        cachedSpots == getCache(c, rd, cacheKey)
        resp == DbQuery(d, options, env.errQ)
        spots == FormatAll(resp[2])
        total == IF resp[3] = Null THEN 0 ELSE resp[3][1]
        result == [data |-> spots[2], total |-> total, page |-> page, limit |-> limit,
                   totalPages |-> ceil(total, limit)]
    IN IF ~IsOk(cachedSpots)
       THEN Outcome(d, c, Throw(Wrap("Failed to get spots", cachedSpots[2])), 0, 0, 0, FALSE)
       ELSE IF cachedSpots[2] # Null THEN Outcome(d, c, Ok(cachedSpots[2][1]), 0, 0, 0, TRUE)
       ELSE IF IsError(resp) THEN getSpotsQueryFailed(d, c, resp[3])
       ELSE IF ~IsOk(spots)
       THEN Outcome(d, c, Throw(Wrap("Failed to get spots", spots[2])), 1, 0, 0, FALSE)
       ELSE Outcome(d, setCache(c, rd, cacheKey, result), Ok(result), 1, 0, 1, FALSE)

getSpots(d, c, rd, options, env) ==
    getSpotsWithKey(d, c, rd, options, JSONstringify(options), env)

\* `POINT(${longitude} ${latitude})`, from whichever coordinates are defined
Point(coords) == <<"POINT", coords>>

\* .from('spots').insert([row]).select().single()
DbInsert(d, row, err) ==
    IF err THEN [resp |-> DbError("XX000"), db |-> d]
    ELSE [resp |-> <<"data", DbStored(row)>>, db |-> d \cup {DbStored(row)}]

\* .from('spots').update(patch).eq('id', id).select().single()
DbUpdate(d, id, patch, err) ==
    LET found == {r \in d : r.id = id}
        old == CHOOSE r \in found : TRUE
        new == Merge(old, DbStored(patch))
    IN IF err THEN [resp |-> DbError("XX000"), db |-> d]
       ELSE IF found = {} THEN [resp |-> DbError("PGRST116"), db |-> d]
       ELSE [resp |-> <<"data", new>>, db |-> (d \ {old}) \cup {new}]

\* .from('spots').delete().eq('id', id)
DbDelete(d, id, err) ==
    IF err THEN [resp |-> DbError("XX000"), db |-> d]
    ELSE [resp |-> <<"data">>, db |-> {r \in d : r.id # id}]

createSpot(d, c, rd, spot, id, timestamp, env) ==
    LET nested == Has(spot, "location")
        flat == TruthyNum(spot, "latitude") /\ TruthyNum(spot, "longitude")
        coords == IF nested THEN Only(spot.location, {"latitude", "longitude"})
                  ELSE Only(spot, {"latitude", "longitude"})
        newSpotData ==
            Merge(Without(spot, {"images", "location", "latitude", "longitude"}),
                  Merge([id |-> id,
                         created_at |-> timestamp,
                         updated_at |-> timestamp,
                         status |-> IF TruthyStr(spot, "status") THEN spot.status ELSE "active",
                         verified |-> TruthyBool(spot, "verified"),
                         skateability_score |->
                             IF TruthyNum(spot, "skateability_score")
                             THEN spot.skateability_score ELSE DefaultScore,
                         location |-> Point(coords),
                         features |-> Opt(spot, "features", Obj)],
                        coords))
        ins == DbInsert(d, newSpotData, env.errW)
        formatted == formatSpotData(ins.resp[2])
    IN IF ~nested /\ ~flat
       THEN Outcome(d, c, Throw(<<"Failed to create spot", "Missing location data">>),
                    0, 0, 0, FALSE)
       ELSE IF IsError(ins.resp)
       THEN Outcome(d, c, Throw(<<"Failed to create spot", "Database error", ins.resp[3]>>),
                    0, 1, 0, FALSE)
       ELSE Outcome(ins.db, invalidateSpotCaches(c, rd),
                    IF IsOk(formatted) THEN formatted
                    ELSE Throw(Wrap("Failed to create spot", formatted[2])),
                    0, 1, 0, FALSE)

\* variant: the fields of the change are taken as they come
updateData_Unstripped(spot) == spot

\* const { id: _, created_at, ...updateData } = spot
updateData(spot) == Without(spot, {"id", "created_at"})

updateSpot(d, c, rd, id, spot, timestamp, env) ==
    LET existing == getSpotById(d, c, rd, id, env)
        updatedData == Merge(updateData(spot), [updated_at |-> timestamp])
        geoData == IF Has(spot, "location")
                   THEN Merge([location |-> Point(Only(spot.location, {"latitude", "longitude"}))],
                              Only(spot.location, {"latitude", "longitude"}))
                   ELSE Obj
        upd == DbUpdate(d, id, Merge(updatedData, geoData), env.errW)
        formatted == formatSpotData(upd.resp[2])
    IN IF ~IsOk(existing.out)
       THEN Outcome(d, existing.cache, Throw(Wrap("Failed to update spot", existing.out[2])),
                    existing.queries, 0, existing.sets, existing.hit)
       ELSE IF existing.out[2] = Null
       THEN Outcome(d, existing.cache, Throw(<<"Failed to update spot", "Spot not found">>),
                    existing.queries, 0, existing.sets, existing.hit)
       ELSE IF IsError(upd.resp)
       THEN Outcome(d, existing.cache,
                    Throw(<<"Failed to update spot", "Database error", upd.resp[3]>>),
                    existing.queries, 1, existing.sets, existing.hit)
       ELSE Outcome(upd.db,
                    invalidateSpotCaches(deleteCache(existing.cache, rd, <<"spot", id>>), rd),
                    IF IsOk(formatted) THEN formatted
                    ELSE Throw(Wrap("Failed to update spot", formatted[2])),
                    existing.queries, 1, existing.sets, existing.hit)

deleteSpot(d, c, rd, id, env) ==
    LET existing == getSpotById(d, c, rd, id, env)
        del == DbDelete(d, id, env.errW)
    IN IF ~IsOk(existing.out)
       THEN Outcome(d, existing.cache, Throw(Wrap("Failed to delete spot", existing.out[2])),
                    existing.queries, 0, existing.sets, existing.hit)
       ELSE IF existing.out[2] = Null
       THEN Outcome(d, existing.cache, Throw(<<"Failed to delete spot", "Spot not found">>),
                    existing.queries, 0, existing.sets, existing.hit)
       ELSE IF IsError(del.resp)
       THEN Outcome(d, existing.cache,
                    Throw(<<"Failed to delete spot", "Database error", del.resp[3]>>),
                    existing.queries, 1, existing.sets, existing.hit)
       ELSE Outcome(del.db,
                    invalidateSpotCaches(deleteCache(existing.cache, rd, <<"spot", id>>), rd),
                    Ok(TRUE), existing.queries, 1, existing.sets, existing.hit)

----------------------------------------------------------------------------
(* POST /spots: authenticate, validate, SpotController.createSpot.         *)

Http(status, body) == <<"http", status, body>>

\* variant: every request is let through as the development user
authenticate_Open(headers, NODE_ENV) == Ok([userId |-> "test-user-123"])

\* a request's Authorization header is <<scheme, token>>; a token is
\* [text |-> its characters, valid |-> the signature verifies,
\*  payload |-> the decoded claims]
authenticate(headers, NODE_ENV) ==
    IF ~Has(headers, "authorization") \/ headers.authorization[1] # "Bearer"
    THEN Throw(Http(401, "Authentication required"))
    ELSE LET token == headers.authorization[2]
             decoded == token.payload
         IN IF /\ token.text = "mock-development-token"
               /\ NODE_ENV \in {"development", "test"}
            THEN Ok([userId |-> "test-user-123"])
            ELSE IF ~token.valid THEN Throw(Http(401, "Invalid or expired token"))
            ELSE IF ~TruthyStr(decoded, "sub") /\ ~TruthyStr(decoded, "userId")
            THEN Throw(Http(401, "Invalid token format"))
            ELSE Ok([userId |-> IF TruthyStr(decoded, "sub") THEN decoded.sub
                                ELSE decoded.userId])

\* body(k).optional().isFloat({ min, max })
IsFloatIn(o, k, min, max) == Has(o, k) => (o[k] >= min /\ o[k] <= max)
\* body(k).optional().isIn(values)
IsIn(o, k, values) == Has(o, k) => o[k] \in values

SpotTypes == {"stairs", "rail", "ledge", "gap", "manual pad", "bowl", "ramp", "halfpipe",
              "plaza", "other", "unknown"}
Difficulties == {"easy", "medium", "hard", "pro", "unknown"}
Surfaces == {"concrete", "wood", "metal", "asphalt", "tile", "brick", "smooth", "rough",
             "cracked", "polished", "textured", "other", "unknown"}

\* the validation chains of router.post('/')
validate(body) ==
    /\ TruthyStr(body, "name")
    /\ Has(body, "location") =>
           /\ IsFloatIn(body.location, "latitude", -90, 90)
           /\ IsFloatIn(body.location, "longitude", -180, 180)
    /\ IsFloatIn(body, "latitude", -90, 90)
    /\ IsFloatIn(body, "longitude", -180, 180)
    /\ IsIn(body, "type", SpotTypes)
    /\ IsIn(body, "difficulty", Difficulties)
    /\ IsIn(body, "surface", Surfaces)
    /\ IsFloatIn(body, "skateability_score", 0, 10)

SpotController_createSpot(d, c, rd, user, body, id, timestamp, env) ==
    LET spotData == Merge(body, [user_id |-> user.userId, created_by |-> user.userId])
        nested == /\ Has(spotData, "location")
                  /\ TruthyNum(spotData.location, "latitude")
                  /\ TruthyNum(spotData.location, "longitude")
        located == IF nested
                   THEN Merge(spotData, [latitude |-> spotData.location.latitude,
                                         longitude |-> spotData.location.longitude])
                   ELSE spotData
        r == createSpot(d, c, rd, located, id, timestamp, env)
    IN IF ~TruthyStr(user, "userId")
       THEN Outcome(d, c, Http(401, "User information is missing from the request."),
                    0, 0, 0, FALSE)
       ELSE IF ~TruthyStr(spotData, "name")
       THEN Outcome(d, c, Http(400, "Missing required field: name is required"), 0, 0, 0, FALSE)
       ELSE IF ~nested /\ (~TruthyNum(spotData, "latitude") \/ ~TruthyNum(spotData, "longitude"))
       THEN Outcome(d, c, Http(400, "Missing required fields: latitude and longitude are required"),
                    0, 0, 0, FALSE)
       ELSE IF IsOk(r.out)
       THEN Outcome(r.db, r.cache, Http(201, r.out[2]), r.queries, r.writes, r.sets, r.hit)
       ELSE Outcome(r.db, r.cache, Http(500, r.out[2]), r.queries, r.writes, r.sets, r.hit)

PostSpots(d, c, rd, request, id, timestamp, env) ==
    LET auth == authenticate(request.headers, env.NODE_ENV) IN
    IF ~IsOk(auth) THEN Outcome(d, c, auth[2], 0, 0, 0, FALSE)
    ELSE IF ~validate(request.body)
    THEN Outcome(d, c, Http(400, "Validation failed"), 0, 0, 0, FALSE)
    ELSE SpotController_createSpot(d, c, rd, auth[2], request.body, id, timestamp, env)

----------------------------------------------------------------------------
(* The inputs the calls are drawn from.                                    *)

Env(errQ, errW) == [errQ |-> errQ, errW |-> errW]

Drafts ==
    { [name |-> "a", latitude |-> 1, longitude |-> 1],
      [name |-> "a", location |-> [latitude |-> 1, longitude |-> 2],
       status |-> "archived", verified |-> TRUE],
      [name |-> "a", location |-> Obj] }

Patches ==
    { [skateability_score |-> 9],
      [id |-> 2, status |-> "archived", location |-> [latitude |-> 2, longitude |-> 1]] }

Queries ==
    { Obj,
      [verified |-> FALSE],
      [nearLocation |-> [latitude |-> 1, longitude |-> 1]] }

\* the drafts of the creation runs: every way a name and a location can be
\* given or left out, and the optional fields createSpot defaults
CreateDrafts ==
    { [name |-> "a", latitude |-> 1, longitude |-> 1],
      [name |-> "a", location |-> [latitude |-> 1, longitude |-> 2]],
      [name |-> "a", location |-> [latitude |-> 0, longitude |-> 1]],
      [name |-> "a", location |-> Obj],
      [name |-> "a", location |-> [latitude |-> 1], latitude |-> 1, longitude |-> 1],
      [name |-> "a", latitude |-> 0, longitude |-> 1],
      [name |-> "a", latitude |-> 1],
      [name |-> "a"],
      [latitude |-> 1, longitude |-> 1],
      [name |-> "", location |-> [latitude |-> 1, longitude |-> 2]],
      [name |-> "a", latitude |-> 1, longitude |-> 1, status |-> "archived"],
      [name |-> "a", latitude |-> 1, longitude |-> 1, skateability_score |-> 0],
      [name |-> "a", latitude |-> 1, longitude |-> 1, skateability_score |-> 7, id |-> 1],
      [name |-> "a", latitude |-> 1, longitude |-> 1, verified |-> TRUE],
      [name |-> "a", latitude |-> 91, longitude |-> 1] }

Headers ==
    { Obj,
      [authorization |-> <<"Bearer", [text |-> "mock-development-token", valid |-> FALSE,
                                      payload |-> Obj]>>],
      [authorization |-> <<"Bearer", [text |-> "jwt", valid |-> TRUE,
                                      payload |-> [sub |-> "u1"]]>>] }

NodeEnvs == {"development", "production"}

\* the page requests of the pagination runs
PageQueries ==
    {Obj} \cup {[page |-> p, limit |-> l] : p \in 1..3, l \in {1, 10}}
          \cup {[page |-> 1, limit |-> 20, status |-> "archived"]}

----------------------------------------------------------------------------
(* The state machine: one action per call, and the environment's steps.    *)

\* the log of a completed call: what was asked, under which Redis state, and
\* what the call returned and asked of the datastore and the cache
Log(op, args, env, r) ==
    [op |-> op, args |-> args, env |-> env, rd |-> redis,
     out |-> r.out, queries |-> r.queries, writes |-> r.writes, sets |-> r.sets,
     hit |-> r.hit, prior |-> Null, prev |-> Null]

\* the spot the previous call created, if the previous call was a successful create
JustCreated ==
    IF last.op = "createSpot" /\ IsOk(last.out)
    THEN <<[id |-> last.out[2].id, rd |-> last.rd]>>
    ELSE IF last.op = "POST /spots" /\ last.out[2] = 201
    THEN <<[id |-> last.out[3].id, rd |-> last.rd]>>
    ELSE Null

\* the result of the previous call, if it was a getSpots with the same options
\* that returned under a working cache and no entry has expired since
JustServed(options) ==
    IF /\ last.op = "getSpots" /\ last.args = options /\ IsOk(last.out)
       /\ last.rd = "ok"
    THEN <<last.out[2]>>
    ELSE Null

NoCache == <<>>

Init ==
    /\ db = {}
    /\ cache = NoCache
    /\ redis \in {"none", "ok", "down"}
    /\ now = 0
    /\ nextId = 1
    /\ last = [op |-> "init"]
    /\ mail = <<>>
    /\ verifyCalls = {}
    /\ reviews = {}

GetSpots(Q) ==
    \E options \in Q, errQ \in BOOLEAN :
        LET env == Env(errQ, FALSE)
            r == getSpots(db, cache, redis, options, env)
        IN /\ db' = r.db
           /\ cache' = r.cache
           /\ last' = [Log("getSpots", options, env, r) EXCEPT
                           !.prior = JustServed(options), !.prev = JustCreated]
           /\ UNCHANGED <<redis, now, nextId, mail, verifyCalls, reviews>>

GetSpotById ==
    \E id \in 1..MaxSpots, errQ \in BOOLEAN :
        LET env == Env(errQ, FALSE)
            r == getSpotById(db, cache, redis, id, env)
        IN /\ db' = r.db
           /\ cache' = r.cache
           /\ last' = Log("getSpotById", id, env, r)
           /\ UNCHANGED <<redis, now, nextId, mail, verifyCalls, reviews>>

CreateSpot(D) ==
    /\ nextId <= MaxSpots
    /\ now < MaxClock
    /\ \E spot \in D, errW \in BOOLEAN :
        LET env == Env(FALSE, errW)
            r == createSpot(db, cache, redis, spot, nextId, <<"iso", now>>, env)
        IN /\ db' = r.db
           /\ cache' = r.cache
           /\ last' = Log("createSpot", [spot |-> spot, id |-> nextId], env, r)
    /\ nextId' = nextId + 1
    /\ now' = now + 1
    /\ UNCHANGED <<redis, mail, verifyCalls, reviews>>

UpdateSpotWith(P) ==
    /\ now < MaxClock
    /\ \E id \in 1..MaxSpots, spot \in P, errQ \in BOOLEAN, errW \in BOOLEAN :
        LET env == Env(errQ, errW)
            r == updateSpot(db, cache, redis, id, spot, <<"iso", now>>, env)
        IN /\ db' = r.db
           /\ cache' = r.cache
           /\ last' = Log("updateSpot", [id |-> id, spot |-> spot], env, r)
    /\ now' = now + 1
    /\ UNCHANGED <<redis, nextId, mail, verifyCalls, reviews>>

UpdateSpot == UpdateSpotWith(Patches)

DeleteSpot ==
    /\ now < MaxClock
    /\ \E id \in 1..MaxSpots, errQ \in BOOLEAN, errW \in BOOLEAN :
        LET env == Env(errQ, errW)
            r == deleteSpot(db, cache, redis, id, env)
        IN /\ db' = r.db
           /\ cache' = r.cache
           /\ last' = Log("deleteSpot", [id |-> id], env, r)
    /\ now' = now + 1
    /\ UNCHANGED <<redis, nextId, mail, verifyCalls, reviews>>

PostSpotAs(H, D) ==
    /\ nextId <= MaxSpots
    /\ now < MaxClock
    /\ \E headers \in H, body \in D, errW \in BOOLEAN, mode \in NodeEnvs :
        LET env == Merge(Env(FALSE, errW), [NODE_ENV |-> mode])
            request == [headers |-> headers, body |-> body]
            r == PostSpots(db, cache, redis, request, nextId, <<"iso", now>>, env)
        IN /\ db' = r.db
           /\ cache' = r.cache
           /\ last' = Log("POST /spots", [spot |-> body, id |-> nextId, headers |-> headers],
                          env, r)
    /\ nextId' = nextId + 1
    /\ now' = now + 1
    /\ UNCHANGED <<redis, mail, verifyCalls, reviews>>

PostSpot(D) == PostSpotAs(Headers, D)

\* the Redis connection drops: commands reject until it is back
RedisDown ==
    /\ redis = "ok"
    /\ redis' = "down"
    /\ UNCHANGED <<db, cache, now, nextId, last, mail, verifyCalls, reviews>>

RedisUp ==
    /\ redis = "down"
    /\ redis' = "ok"
    /\ UNCHANGED <<db, cache, now, nextId, last, mail, verifyCalls, reviews>>

\* an entry reaches its TTL; the log keeps only a spot just created
Expire ==
    \E key \in DOMAIN cache :
        /\ cache' = [k \in DOMAIN cache \ {key} |-> cache[k]]
        /\ last' = IF JustCreated # Null THEN last ELSE [op |-> "expire"]
        /\ UNCHANGED <<db, redis, now, nextId, mail, verifyCalls, reviews>>

Next ==
    \/ GetSpots(Queries)
    \/ GetSpotById
    \/ CreateSpot(Drafts)
    \/ UpdateSpot
    \/ DeleteSpot
    \/ RedisDown
    \/ RedisUp
    \/ Expire

Spec == Init /\ [][Next]_vars

----------------------------------------------------------------------------
(* Creation runs: createSpot and POST /spots over the creation drafts.     *)

InitCreate ==
    /\ db = {}
    /\ cache = NoCache
    /\ redis = "ok"
    /\ now = 0
    /\ nextId = 1
    /\ last = [op |-> "init"]
    /\ mail = <<>>
    /\ verifyCalls = {}
    /\ reviews = {}

NextCreate ==
    \/ CreateSpot(CreateDrafts)
    \/ PostSpot(CreateDrafts)
    \/ GetSpots(Queries)

SpecCreate == InitCreate /\ [][NextCreate]_vars

----------------------------------------------------------------------------
(* Pagination runs: getSpots over a table of up to MaxRows active spots    *)
(* and some archived ones, each row stored by createSpot.                  *)

\* the table createSpot leaves after n successful calls, the first `archived`
\* of them with an archived draft
Populate(n, archived) ==
    UNION { createSpot({}, NoCache, "none",
                       IF i <= archived
                       THEN [name |-> "a", latitude |-> 1, longitude |-> 1,
                             status |-> "archived"]
                       ELSE [name |-> "a", latitude |-> 1, longitude |-> 1],
                       i, <<"iso", i>>, Env(FALSE, FALSE)).db : i \in 1..n }

InitPage ==
    /\ \E n \in 0..MaxRows, archived \in 0..2 : db = Populate(n + archived, archived)
    /\ cache = NoCache
    /\ redis = "none"
    /\ now = 0
    /\ nextId = 1
    /\ last = [op |-> "init"]
    /\ mail = <<>>
    /\ verifyCalls = {}
    /\ reviews = {}

\* the table does not change: one call per run
NextPage == last.op = "init" /\ GetSpots(PageQueries)

SpecPage == InitPage /\ [][NextPage]_vars

----------------------------------------------------------------------------
(* The properties.                                                         *)

\* the spots of the page the last getSpots returned
Data == last.out[2].data
Ids(spots) == {spots[i].id : i \in 1..Len(spots)}
Located(spot) ==
    /\ Has(spot, "location")
    /\ Has(spot.location, "latitude")
    /\ Has(spot.location, "longitude")
LacksLocation(row) == ~Has(row, "latitude") \/ ~Has(row, "longitude")
Max(a, b) == IF a >= b THEN a ELSE b

\* C1: every spot of a getSpots result, fresh or cached, has a latitude and a
\* longitude; when the queried page holds a row lacking either, the call fails.
C1_OnlyLocatedSpots ==
    last.op = "getSpots" =>
        /\ IsOk(last.out) => \A i \in 1..Len(Data) : Located(Data[i])
        /\ (/\ last.queries = 1
            /\ ~last.env.errQ
            /\ LET rows == DbQuery(db, last.args, FALSE)[2]
               IN \E i \in 1..Len(rows) : LacksLocation(rows[i]))
           => ~IsOk(last.out)

\* a page is returned while a row without coordinates is stored
C1_Witness ==
    /\ last.op = "getSpots"
    /\ IsOk(last.out)
    /\ Len(Data) > 0
    /\ \E r \in db : LacksLocation(r)

C3_SecondCallFromCache ==
    (/\ last.op = "getSpots"
     /\ last.prior # Null
     /\ last.rd = "ok")
    => /\ IsOk(last.out)
       /\ last.out[2] = last.prior[1]
       /\ last.queries = 0

C3_Witness ==
    /\ last.op = "getSpots"
    /\ last.prior # Null
    /\ last.rd = "ok"
    /\ last.hit
    /\ Len(Data) > 0

\* what the claim asks of a returned spot: every filter field present in the
\* options holds of it, status defaulting to 'active'
SatisfiesFilters(spot, options) ==
    /\ Has(options, "type") => spot.type = options.type
    /\ Has(options, "surface") => spot.surface = options.surface
    /\ Has(options, "difficulty") => spot.difficulty = options.difficulty
    /\ Has(options, "verified") => spot.verified = options.verified
    /\ spot.status = Opt(options, "status", "active")
    /\ Has(options, "userId") => spot.user_id = options.userId
    /\ Has(options, "minSkateabilityScore") =>
           spot.skateability_score >= options.minSkateabilityScore

\* C4: every spot of a getSpots result satisfies every filter of the options.
C4_FiltersHold ==
    (last.op = "getSpots" /\ IsOk(last.out))
    => \A i \in 1..Len(Data) : SatisfiesFilters(Data[i], last.args)

\* C5: on the table path getSpots asks for rows (page-1)*limit .. page*limit-1
\* of the ordered matches, returns exactly those, total = N and
\* totalPages = ceil(N/limit); page 2 of 10 out of 25 is 10 items, 3 pages.
C5_Pagination ==
    (/\ last.op = "getSpots"
     /\ ~Has(last.args, "nearLocation")
     /\ last.queries = 1
     /\ IsOk(last.out))
    => LET page == Opt(last.args, "page", 1)
           limit == Opt(last.args, "limit", 20)
           matches == {r \in db : RowMatches(r, last.args)}
           N == Cardinality(matches)
           res == last.out[2]
           position(id) ==
               Cardinality({o \in matches :
                   \E r \in matches : r.id = id /\ Before(o, r, "created_at", FALSE)})
       IN /\ QueryRange(last.args) = <<(page - 1) * limit, page * limit - 1>>
          /\ res.total = N
          /\ res.totalPages * limit >= N
          /\ (res.totalPages - 1) * limit < N
          /\ Len(res.data) = Max(0, Min(limit, N - (page - 1) * limit))
          /\ \A i \in 1..Len(res.data) : position(res.data[i].id) = (page - 1) * limit + i
          /\ (page = 2 /\ limit = 10 /\ N = 25) => (Len(res.data) = 10 /\ res.totalPages = 3)

C5_Witness ==
    /\ last.op = "getSpots"
    /\ last.args = [page |-> 2, limit |-> 10]
    /\ Cardinality({r \in db : RowMatches(r, last.args)}) = 25
    /\ Cardinality(db) > 25
    /\ IsOk(last.out)
    /\ Len(Data) = 10
    /\ last.out[2].totalPages = 3

\* the call a log records, run again from datastore d and cache c under rd
Rerun(l, d, c, rd, timestamp) ==
    CASE l.op = "getSpots" -> getSpots(d, c, rd, l.args, l.env)
      [] l.op = "getSpotById" -> getSpotById(d, c, rd, l.args, l.env)
      [] l.op = "createSpot" -> createSpot(d, c, rd, l.args.spot, l.args.id, timestamp, l.env)
      [] l.op = "updateSpot" -> updateSpot(d, c, rd, l.args.id, l.args.spot, timestamp, l.env)
      [] l.op = "deleteSpot" -> deleteSpot(d, c, rd, l.args.id, l.env)

ServiceOps == {"getSpots", "getSpotById", "createSpot", "updateSpot", "deleteSpot"}

\* C6: a service call made while Redis is not configured or rejects every
\* command returns or throws what it would with an empty working cache and
\* has the same effect on the datastore; no cache error reaches the caller.
C6_CacheFailureTolerated ==
    [][(/\ redis # "ok"
        /\ redis' = redis
        /\ cache' = cache
        /\ last'.op \in ServiceOps)
       => LET ref == Rerun(last', db, NoCache, "ok", <<"iso", now>>)
          IN /\ db' = ref.db
             /\ last'.out = ref.out
             /\ last'.queries = ref.queries
             /\ last'.writes = ref.writes]_vars

\* an update completes while Redis rejects every command
C6_Witness ==
    /\ last.op = "updateSpot"
    /\ last.rd = "down"
    /\ IsOk(last.out)

\* C7: when the datastore answers the query of getSpots with an error, the
\* call throws one 'Failed to get spots' Error around the datastore message,
\* returns no page and makes no cache write.
C7_QueryErrorSurfaces ==
    (/\ last.op = "getSpots"
     /\ last.queries = 1
     /\ last.env.errQ)
    => /\ last.out = Throw(<<"Failed to get spots", "Database error", "db-message">>)
       /\ last.sets = 0

C7_Witness ==
    /\ last.op = "getSpots"
    /\ last.queries = 1
    /\ last.env.errQ
    /\ last.rd = "ok"
    /\ db # {}
    /\ ~IsOk(last.out)

\* a draft resolves to coordinates through its nested location or its flat fields
Resolves(spot) ==
    \/ /\ Has(spot, "location")
       /\ Has(spot.location, "latitude")
       /\ Has(spot.location, "longitude")
    \/ Has(spot, "latitude") /\ Has(spot, "longitude")

InvalidDraft(spot) == ~TruthyStr(spot, "name") \/ ~Resolves(spot)

\* C8: for a draft without a non-empty name or without resolvable
\* coordinates, createSpot and POST /spots send no insert to the datastore
\* and report a failure.
C8_InvalidDraftRejected ==
    (last.op \in {"createSpot", "POST /spots"} /\ InvalidDraft(last.args.spot))
    => /\ last.writes = 0
       /\ last.op = "createSpot" => ~IsOk(last.out)
       /\ last.op = "POST /spots" => last.out[2] \in {400, 401}

\* C9: createSpot stores the row under a fresh id, with the draft's status
\* or 'active', and with the draft's skateability_score or 5 when absent.
C9_StoredDefaults ==
    (/\ last.op = "createSpot"
     /\ last.writes = 1
     /\ ~last.env.errW)
    => LET spot == last.args.spot
           stored == {r \in db : r.id = last.args.id}
       IN /\ Cardinality(stored) = 1
          /\ Cardinality({r.id : r \in db}) = Cardinality(db)
          /\ \A r \in stored :
                /\ r.status = Opt(spot, "status", "active")
                /\ r.skateability_score = Opt(spot, "skateability_score", 5)

----------------------------------------------------------------------------
(* SpotAnalysisService.  A class name is the sequence of its characters; a *)
(* confidence is a percentage, an average the fraction <<sum, count>>.     *)

Upper == <<"A", "B", "C", "D", "E", "F", "G", "H", "I", "J", "K", "L", "M",
           "N", "O", "P", "Q", "R", "S", "T", "U", "V", "W", "X", "Y", "Z">>
LowerCase == <<"a", "b", "c", "d", "e", "f", "g", "h", "i", "j", "k", "l", "m",
               "n", "o", "p", "q", "r", "s", "t", "u", "v", "w", "x", "y", "z">>

toLowerCase(str) ==
    Let(str, LAMBDA chars :
        [i \in DOMAIN chars |->
            IF \E k \in DOMAIN Upper : Upper[k] = chars[i]
            THEN LowerCase[CHOOSE k \in DOMAIN Upper : Upper[k] = chars[i]]
            ELSE chars[i]])

includes(str, sub) ==
    \E i \in 1..(Len(str) - Len(sub) + 1) : SubSeq(str, i, i + Len(sub) - 1) = sub

\* the class names of the runs
c_rail == <<"r", "a", "i", "l">>
c_ledge == <<"l", "e", "d", "g", "e">>
c_stairs == <<"s", "t", "a", "i", "r", "s">>
c_gap == <<"g", "a", "p">>
c_Gap == <<"G", "a", "p">>
c_manual_pad == <<"m", "a", "n", "u", "a", "l", "_", "p", "a", "d">>
c_flatground == <<"f", "l", "a", "t", "g", "r", "o", "u", "n", "d">>
c_kicker == <<"k", "i", "c", "k", "e", "r">>
c_undefined == <<"u", "n", "d", "e", "f", "i", "n", "e", "d">>

\* the substrings mapToSpotType looks for
s_stair == <<"s", "t", "a", "i", "r">>
s_manual == <<"m", "a", "n", "u", "a", "l">>
s_pad == <<"p", "a", "d">>
s_bowl == <<"b", "o", "w", "l">>
s_ramp == <<"r", "a", "m", "p">>
s_half == <<"h", "a", "l", "f">>
s_pipe == <<"p", "i", "p", "e">>
s_plaza == <<"p", "l", "a", "z", "a">>
s_flat == <<"f", "l", "a", "t">>

\* className.toLowerCase() throws a TypeError when className is undefined
mapToSpotType(className) ==
    IF className = Null THEN Throw(<<"TypeError">>)
    ELSE Let(toLowerCase(className[1]), LAMBDA lowerClass :
         Ok(IF includes(lowerClass, c_rail) THEN "rail"
            ELSE IF includes(lowerClass, c_ledge) THEN "ledge"
            ELSE IF includes(lowerClass, s_stair) THEN "stairs"
            ELSE IF includes(lowerClass, c_gap) THEN "gap"
            ELSE IF includes(lowerClass, s_manual) \/ includes(lowerClass, s_pad)
            THEN "manual pad"
            ELSE IF includes(lowerClass, s_bowl) THEN "bowl"
            ELSE IF includes(lowerClass, s_ramp) THEN "ramp"
            ELSE IF includes(lowerClass, s_half) /\ includes(lowerClass, s_pipe)
            THEN "halfpipe"
            ELSE IF includes(lowerClass, s_plaza) THEN "plaza"
            ELSE IF includes(lowerClass, s_flat) THEN "other"
            ELSE "other"))

\* a prediction's class as a property key: undefined becomes 'undefined'
ClassKey(pred) == IF Has(pred, "class") THEN pred.class ELSE c_undefined
ClassOf(pred) == IF Has(pred, "class") THEN <<pred.class>> ELSE Null

\* classes[className]: the number of predictions of the class
Count(predictions, key) ==
    Cardinality({i \in DOMAIN predictions : ClassKey(predictions[i]) = key})

\* Object.entries(classes): the classes in the order of their first prediction
FirstSeen(predictions) ==
    {i \in DOMAIN predictions :
        \A j \in 1..(i - 1) : ClassKey(predictions[j]) # ClassKey(predictions[i])}

\* the first class, in that order, with the largest count
DominantClass(predictions) ==
    LET key(i) == ClassKey(predictions[i])
        best == CHOOSE i \in FirstSeen(predictions) :
                    \A j \in FirstSeen(predictions) :
                        \/ Count(predictions, key(j)) < Count(predictions, key(i))
                        \/ Count(predictions, key(j)) = Count(predictions, key(i)) /\ i <= j
    IN key(best)

DominantType(predictions) ==
    IF predictions = <<>> THEN "unknown"
    ELSE mapToSpotType(<<DominantClass(predictions)>>)[2]

\* the rule table of processRoboflowPredictions
MapDifficulty(spotType, predictions) ==
    IF spotType = "rail" \/ spotType = "stairs" \/ Count(predictions, c_gap) > 0
    THEN "hard"
    ELSE IF spotType = "ledge" \/ Count(predictions, c_manual_pad) > 0
    THEN "medium"
    ELSE IF spotType = "other" /\ Count(predictions, c_flatground) > 0
    THEN "easy"
    ELSE "medium"

\* Math.round of the non-negative fraction num / den
Round(num, den) == (2 * num + den) \div (2 * den)

DefaultConfidence == 70

\* avgConfidence: 0.7 without predictions, else the mean of the confidences
AvgConfidence(predictions) ==
    LET Sum[i \in 0..Len(predictions)] ==
            IF i = 0 THEN 0 ELSE Sum[i - 1] + predictions[i].confidence
    IN IF predictions = <<>> THEN <<DefaultConfidence, 1>>
       ELSE <<Sum[Len(predictions)], Len(predictions)>>

\* Math.min(Math.round(avgConfidence * 10 * 10) / 10, 10), in tenths
SkateabilityScore(avg) == Min(Round(avg[1], avg[2]), 100)

estimateSurfaceQuality(imagePath) == IF imagePath = "" THEN "unknown" ELSE "smooth"

getSuggestedTricksForType(spotType) ==
    CASE spotType = "rail" ->
            <<"50-50 Grind", "Boardslide", "Lipslide", "Smith Grind", "Feeble Grind">>
      [] spotType = "ledge" ->
            <<"50-50 Grind", "Noseslide", "Tailslide", "Crooked Grind", "Bluntslide">>
      [] spotType = "stairs" -> <<"Ollie", "Kickflip", "Heelflip", "360 Flip", "Hardflip">>
      [] spotType \in {"ramp", "halfpipe"} ->
            <<"Rock to Fakie", "Axle Stall", "Disaster", "Blunt to Fakie", "Rock and Roll">>
      [] spotType = "manual pad" ->
            <<"Manual", "Nose Manual", "Kickflip to Manual", "Manual to 180 Out">>
      [] spotType = "gap" -> <<"Ollie", "Kickflip", "Heelflip", "360 Flip", "Varial Heel">>
      [] spotType = "plaza" -> <<"Lines", "Flip Tricks", "Grinds", "Manual Combos", "Gaps">>
      [] spotType = "bowl" -> <<"Carve", "Grind", "Air", "Disaster", "Stall">>
      [] spotType = "other" ->
            <<"Kickflip", "Heelflip", "360 Flip", "Impossible", "Varial Flip">>
      [] OTHER -> <<"Ollie", "Manual", "Kickflip", "Heelflip", "Pop Shove-it">>

\* the first prediction of the dominant type with the largest bounding box
LargestObject(predictions, spotType) ==
    LET typeObjects == {i \in DOMAIN predictions :
                            mapToSpotType(ClassOf(predictions[i])) = Ok(spotType)}
        area(i) == predictions[i].width * predictions[i].height
        best == CHOOSE i \in typeObjects :
                    \A j \in typeObjects : area(j) < area(i) \/ (area(j) = area(i) /\ i <= j)
    IN IF typeObjects = {} THEN Null ELSE <<predictions[best]>>

EstimateFeatures(predictions, spotType) ==
    LET largest == LargestObject(predictions, spotType) IN
    IF predictions = <<>> \/ spotType = "unknown" \/ largest = Null THEN Obj
    ELSE [width |-> largest[1].width * 100,
          height |-> largest[1].height * 80,
          length |-> largest[1].width * 150]

processRoboflowPredictions(predictions, imagePath) ==
    LET avgConfidence == AvgConfidence(predictions)
    IN IF \E i \in DOMAIN predictions : ~Has(predictions[i], "class")
       THEN Throw(<<"TypeError">>)
       ELSE Let(DominantType(predictions), LAMBDA spotType :
            Ok([type |-> spotType,
                confidence |-> avgConfidence,
                features |-> EstimateFeatures(predictions, spotType),
                surfaceQuality |-> estimateSurfaceQuality(imagePath),
                difficulty |-> MapDifficulty(spotType, predictions),
                skateabilityScore |-> SkateabilityScore(avgConfidence),
                suggestedTricks |-> getSuggestedTricksForType(spotType)]))

\* Math.floor(Math.random() * n) draws: rnd is the record of the draws
getMockAnalysisResult(rnd) ==
    LET spotTypes == <<"ledge", "rail", "stairs", "gap", "ramp", "bowl", "manual pad",
                       "halfpipe">>
        randomType == spotTypes[rnd.type + 1]
        features ==
            CASE randomType = "ledge" ->
                    [height |-> 40 + rnd.f1, width |-> 30 + rnd.f2, length |-> 200 + rnd.f3]
              [] randomType = "rail" ->
                    [height |-> 60 + rnd.f1, length |-> 250 + rnd.f2, angle |-> 15 + rnd.f3]
              [] randomType = "stairs" ->
                    [height |-> 80 + rnd.f1, width |-> 200 + rnd.f2, length |-> 300 + rnd.f3,
                     steps |-> 4 + rnd.f4]
              [] OTHER ->
                    [height |-> 50 + rnd.f1, width |-> 100 + rnd.f2, length |-> 200 + rnd.f3]
        surfaceOptions == <<"smooth", "rough", "cracked", "polished", "textured">>
        difficultyOptions == <<"easy", "medium", "hard", "pro">>
    IN [type |-> randomType,
        confidence |-> <<70 + rnd.confidence, 1>>,
        features |-> features,
        surfaceQuality |-> surfaceOptions[rnd.surface + 1],
        difficulty |-> difficultyOptions[rnd.difficulty + 1]]

\* an empty buffer is only logged; the mock result is returned either way
analyzeWithExternalService(imageBuffer, rnd) == Ok(getMockAnalysisResult(rnd))

\* fs.readFileSync(imagePath): the bytes, or an error for a file that cannot be read
readFileSync(image) ==
    IF image.state = "unreadable" THEN Throw(<<"ENOENT">>)
    ELSE Ok(IF image.state = "empty" THEN <<>> ELSE <<"bytes">>)

\* a classifier request answers <<"fail">> (error status, network error or
\* timeout) or <<"resp", data>>, data being the response body or Null
Posted(r) == r[1] = "resp"

\* response.data.predictions || []; reading it from a missing body throws
PredictionsOf(r) ==
    IF r[2] = Null THEN Throw(<<"TypeError">>)
    ELSE Ok(Opt(r[2][1], "predictions", <<>>))

Configured(cfg) == TruthyStr(cfg, "roboflowApiKey") /\ TruthyStr(cfg, "roboflowModelId")

\* r1 answers the first POST, r2 the retry; posts counts the requests sent
analyzeWithRoboflow(cfg, image, r1, r2) ==
    LET file == readFileSync(image)
        response == IF Posted(r1) THEN r1 ELSE r2
        posts == IF Posted(r1) THEN 1 ELSE 2
    IN IF ~Configured(cfg)
       THEN [out |-> Throw(<<"Roboflow API key or Model ID not configured">>), posts |-> 0]
       ELSE IF ~IsOk(file) THEN [out |-> file, posts |-> 0]
       ELSE IF ~Posted(response) THEN [out |-> Throw(<<"AxiosError">>), posts |-> posts]
       ELSE Let(PredictionsOf(response), LAMBDA predictions :
            IF ~IsOk(predictions) THEN [out |-> predictions, posts |-> posts]
            ELSE [out |-> processRoboflowPredictions(predictions[2], image.path),
                  posts |-> posts])

\* the result analyzeSpotImage returns when the fallback cannot read the image
DefaultAnalysis ==
    [type |-> "unknown", confidence |-> <<0, 1>>, features |-> Obj,
     surfaceQuality |-> "unknown", difficulty |-> "medium"]

\* variant: the notification is awaited and its failure reaches the caller
notifyAnalysisComplete_Awaited(analysisResult, userEmail, notify) ==
    [out |-> IF notify = "ok" THEN Ok(analysisResult)
             ELSE Throw(<<"Failed to send analysis completion email">>),
     attempts |-> 1,
     mailed |-> IF notify = "throws" THEN <<>>
                ELSE <<[to |-> userEmail, type |-> analysisResult.type,
                        difficulty |-> analysisResult.difficulty, state |-> "pending",
                        fate |-> notify]>>]

\* the finally block: the request is started and not awaited; notify tells
\* whether starting it throws and how it will settle
notifyAnalysisComplete(analysisResult, userEmail, notify) ==
    [out |-> Ok(analysisResult),
     attempts |-> 1,
     mailed |-> IF notify = "throws" THEN <<>>
                ELSE <<[to |-> userEmail, type |-> analysisResult.type,
                        difficulty |-> analysisResult.difficulty, state |-> "pending",
                        fate |-> notify]>>]

\* variant: the error of the fallback path reaches the caller
catchAnalysisError_Rethrown(error) == Throw(error)

\* variant: the fallback of detectSpotType and analyzeSurface is used
catchAnalysisError_Other(error) ==
    Ok([type |-> "other", confidence |-> <<0, 1>>, features |-> Obj,
        surfaceQuality |-> "unknown", difficulty |-> "medium"])

\* the catch block of analyzeSpotImage
catchAnalysisError(error) == Ok(DefaultAnalysis)

analyzeSpotImage(cfg, image, userEmail, r1, r2, rnd, notify) ==
    Let(analyzeWithRoboflow(cfg, image, r1, r2), LAMBDA primary :
    LET usePrimary == Configured(cfg) /\ IsOk(primary.out)
        imageBuffer == readFileSync(image)
        returned == IF usePrimary THEN primary.out
                    ELSE IF IsOk(imageBuffer)
                    THEN analyzeWithExternalService(imageBuffer[2], rnd)
                    ELSE catchAnalysisError(imageBuffer[2])
        \* finally: analysisResult is null only if nothing was assigned
        finally == IF IsOk(returned)
                   THEN notifyAnalysisComplete(returned[2], userEmail, notify)
                   ELSE [out |-> returned, attempts |-> 0, mailed |-> <<>>]
    IN [out |-> finally.out,
        source |-> IF usePrimary THEN "primary"
                   ELSE IF IsOk(imageBuffer) THEN "fallback" ELSE "default",
        posts |-> IF Configured(cfg) THEN primary.posts ELSE 0,
        attempts |-> finally.attempts,
        mailed |-> finally.mailed])

\* the points of rateDifficulty; a feature that is 0 is skipped like a missing one
HeightPoints(features) ==
    IF ~TruthyNum(features, "height") THEN 0
    ELSE IF features.height > 200 THEN 6
    ELSE IF features.height > 150 THEN 5
    ELSE IF features.height > 100 THEN 4
    ELSE IF features.height > 50 THEN 2
    ELSE 1

AnglePoints(features) ==
    IF ~TruthyNum(features, "angle") THEN 0
    ELSE IF features.angle > 45 THEN 3
    ELSE IF features.angle > 30 THEN 2
    ELSE IF features.angle > 15 THEN 1
    ELSE 0

LengthPoints(features) ==
    IF ~TruthyNum(features, "length") THEN 0
    ELSE IF features.length > 1000 THEN 2
    ELSE IF features.length > 500 THEN 1
    ELSE 0

\* variant: a total of 6 already rates 'pro'
RatingOf_ProFromSix(difficultyScore) ==
    IF difficultyScore >= 6 THEN "pro"
    ELSE IF difficultyScore >= 5 THEN "hard"
    ELSE IF difficultyScore >= 3 THEN "medium"
    ELSE "easy"

RatingOf(difficultyScore) ==
    IF difficultyScore >= 7 THEN "pro"
    ELSE IF difficultyScore >= 5 THEN "hard"
    ELSE IF difficultyScore >= 3 THEN "medium"
    ELSE "easy"

\* spotFeatures is Null when the argument is omitted: the features then come
\* from the fallback analysis of the image, and a failed read rates 'medium'
rateDifficulty(image, spotFeatures, rnd) ==
    LET imageBuffer == readFileSync(image)
        analysis == analyzeWithExternalService(imageBuffer[2], rnd)
        features == IF spotFeatures # Null THEN spotFeatures[1] ELSE analysis[2].features
    IN IF spotFeatures = Null /\ ~IsOk(imageBuffer) THEN "medium"
       ELSE RatingOf(HeightPoints(features) + AnglePoints(features) + LengthPoints(features))

\* Math.round(R * c * 100) of calculateDistance for whole-degree coordinates
\* 0..2, indexed by <<lat1, lat2, |lon2 - lon1|>>: the distance in 1/100 km
Haversine ==
    [t \in (0..2) \X (0..2) \X (0..2) |->
        CASE <<t[1], t[2]>> = <<0, 0>> -> <<0, 11119, 22239>>[t[3] + 1]
          [] <<t[1], t[2]>> \in {<<0, 1>>, <<1, 0>>} -> <<11119, 15725, 24863>>[t[3] + 1]
          [] <<t[1], t[2]>> \in {<<0, 2>>, <<2, 0>>} -> <<22239, 24863, 31447>>[t[3] + 1]
          [] <<t[1], t[2]>> = <<1, 1>> -> <<0, 11118, 22236>>[t[3] + 1]
          [] <<t[1], t[2]>> \in {<<1, 2>>, <<2, 1>>} -> <<11119, 15723, 24857>>[t[3] + 1]
          [] <<t[1], t[2]>> = <<2, 2>> -> <<0, 11113, 22225>>[t[3] + 1]]

calculateDistance(lat1, lon1, lat2, lon2) == Haversine[<<lat1, lat2, Abs(lon2 - lon1)>>]

\* a column that is null counts as 0 in the arithmetic
NumberOf(row, k) == IF Has(row, k) THEN row[k] ELSE 0

\* variant: the result is not cut
SliceTo_Whole(seq, end) == seq

\* Array.prototype.slice(0, end)
SliceTo(seq, end) ==
    IF end >= 0 THEN SubSeq(seq, 1, Min(end, Len(seq)))
    ELSE SubSeq(seq, 1, Len(seq) + end)

\* Array.prototype.sort((a, b) => a.distance - b.distance): stable
SortByDistance(seq) ==
    LET before(i, j) == \/ seq[i].distance < seq[j].distance
                        \/ seq[i].distance = seq[j].distance /\ i < j
        rank(i) == Cardinality({j \in DOMAIN seq : before(j, i)}) + 1
    IN [k \in DOMAIN seq |-> seq[CHOOSE i \in DOMAIN seq : rank(i) = k]]

DefaultDistanceLimit == 10

\* spotsData is the answer of from('spots').select('*'), in the datastore's order;
\* radiusKm is in km, distances in 1/100 km
getSpotsByDistance(spotsData, latitude, longitude, radiusKm, limit, err) ==
    LET withDistance ==
            [i \in DOMAIN spotsData |->
                Merge(spotsData[i],
                      [distance |-> calculateDistance(latitude, longitude,
                                                      NumberOf(spotsData[i], "latitude"),
                                                      NumberOf(spotsData[i], "longitude"))])]
        inRadius == SelectSeq(withDistance, LAMBDA spot : spot.distance <= radiusKm * 100)
    IN IF err THEN Throw(<<"Failed to get spots by distance">>)
       ELSE Ok(SliceTo(SortByDistance(inRadius),
                       IF limit = Null THEN DefaultDistanceLimit ELSE limit[1]))

----------------------------------------------------------------------------
(* Analysis runs: one analyzeSpotImage or rateDifficulty call per run, and *)
(* the settling of the notification request the call left in flight.       *)

Configs == {Obj, [roboflowApiKey |-> "key"], [roboflowApiKey |-> "key", roboflowModelId |-> "model"]}

Images == {[path |-> "spot.jpg", state |-> "readable"],
           [path |-> "spot.jpg", state |-> "empty"],
           [path |-> "spot.jpg", state |-> "unreadable"],
           [path |-> "", state |-> "unreadable"]}

Detection(class) == [class |-> class, confidence |-> 80, width |-> 2, height |-> 3]

Detections ==
    {Detection(c) : c \in {c_rail, c_ledge, c_stairs, c_gap, c_Gap, c_manual_pad,
                           c_flatground, c_kicker}}
    \cup {[class |-> c_flatground, confidence |-> 95, width |-> 4, height |-> 1],
          [confidence |-> 80, width |-> 2, height |-> 3]}

MaxDetections == 2

PredictionLists ==
    UNION {[1..n -> Detections] : n \in 0..MaxDetections}
    \cup {<<Detection(c_flatground), Detection(c_flatground), Detection(c_manual_pad)>>}

Responses ==
    {<<"fail">>, <<"resp", Null>>, <<"resp", <<Obj>>>>}
    \cup {<<"resp", <<[predictions |-> P]>>>> : P \in PredictionLists}

Retries == {<<"fail">>, <<"resp", Null>>, <<"resp", <<[predictions |-> <<Detection(c_rail)>>]>>>>}

Draws ==
    {[type |-> f[1], f1 |-> f[2], f2 |-> f[2], f3 |-> f[2], f4 |-> 0, confidence |-> f[2],
      surface |-> f[3], difficulty |-> f[4]] :
        f \in {<<0, 0, 0, 0>>, <<1, 9, 4, 3>>, <<2, 0, 2, 1>>, <<7, 9, 1, 2>>}}

Notifies == {"ok", "rejected", "throws"}

Heights == {0, 1, 50, 51, 100, 101, 150, 151, 200, 201, 250}
Angles == {0, 15, 16, 30, 31, 45, 46}
Lengths == {0, 500, 501, 1000, 1001}

FeatureMaps ==
    {Merge(Merge(h, a), l) :
        h \in {Obj} \cup {[height |-> v] : v \in Heights},
        a \in {Obj} \cup {[angle |-> v] : v \in Angles},
        l \in {Obj} \cup {[length |-> v] : v \in Lengths}}

InitAnalysis ==
    /\ db = {}
    /\ cache = NoCache
    /\ redis = "none"
    /\ now = 0
    /\ nextId = 1
    /\ last = [op |-> "init"]
    /\ mail = <<>>
    /\ verifyCalls = {}
    /\ reviews = {}

AnalyzeSpotImage ==
    /\ last.op = "init"
    /\ \E cfg \in Configs, image \in Images, r1 \in Responses, r2 \in Retries,
          rnd \in Draws, notify \in Notifies :
        LET r == analyzeSpotImage(cfg, image, "rider@example.com", r1, r2, rnd, notify)
        IN \* a request that is never sent has no answer to choose
           /\ (~Configured(cfg) \/ image.state = "unreadable") => r1 = <<"fail">>
           /\ (r1 # <<"fail">> \/ ~Configured(cfg) \/ image.state = "unreadable")
                  => r2 = <<"fail">>
           /\ last' = Merge([op |-> "analyzeSpotImage",
                              args |-> [cfg |-> cfg, image |-> image,
                                        userEmail |-> "rider@example.com",
                                        r1 |-> r1, r2 |-> r2, rnd |-> rnd,
                                        notify |-> notify]],
                             r)
           /\ mail' = mail \o last'.mailed
    /\ UNCHANGED <<db, cache, redis, now, nextId, verifyCalls, reviews>>

\* the notification request completes: delivered, or rejected and logged
NotificationSettles ==
    /\ \E i \in DOMAIN mail :
        /\ mail[i].state = "pending"
        /\ mail' = [mail EXCEPT ![i].state =
                        IF mail[i].fate = "ok" THEN "delivered" ELSE "failed"]
    /\ UNCHANGED <<db, cache, redis, now, nextId, last, verifyCalls, reviews>>

RateDifficulty ==
    /\ last.op = "init"
    /\ \E image \in Images, rnd \in Draws,
          spotFeatures \in {Null} \cup {<<f>> : f \in FeatureMaps} :
        last' = [op |-> "rateDifficulty",
                 args |-> [image |-> image, spotFeatures |-> spotFeatures, rnd |-> rnd],
                 out |-> rateDifficulty(image, spotFeatures, rnd)]
    /\ UNCHANGED <<db, cache, redis, now, nextId, mail, verifyCalls, reviews>>

NextAnalysis ==
    \/ AnalyzeSpotImage
    \/ NotificationSettles
    \/ RateDifficulty

SpecAnalysis == InitAnalysis /\ [][NextAnalysis]_vars

----------------------------------------------------------------------------
(* The analysis claims.                                                    *)

AnalysisFields == {"type", "confidence", "features", "surfaceQuality", "difficulty"}

\* C11: whatever the classifier configuration, the answers of the classifier
\* requests, the state of the image file and the fate of the notification,
\* analyzeSpotImage returns a result with type, confidence, features,
\* surfaceQuality and difficulty defined, and throws nothing.
C11_AlwaysWellFormed ==
    last.op = "analyzeSpotImage"
    => /\ IsOk(last.out)
       /\ AnalysisFields \subseteq DOMAIN last.out[2]

\* the classifier is configured, both requests fail, the image cannot be read
\* and the notification cannot be started
C11_Witness ==
    /\ last.op = "analyzeSpotImage"
    /\ Configured(last.args.cfg)
    /\ last.args.image.state = "unreadable"
    /\ last.args.notify = "throws"
    /\ IsOk(last.out)
    /\ last.out[2].type = "unknown"

\* C12: analyzeSpotImage returns exactly {type 'unknown', confidence 0,
\* features {}, surfaceQuality 'unknown', difficulty 'medium'} if and only if
\* no primary result was obtained and the fallback could not read the image.
C12_DefaultOnTotalFailure ==
    last.op = "analyzeSpotImage"
    => (last.out = Ok([type |-> "unknown", confidence |-> <<0, 1>>, features |-> <<>>,
                       surfaceQuality |-> "unknown", difficulty |-> "medium"])
        <=> (last.source # "primary" /\ last.args.image.state = "unreadable"))

\* the classifier answers without predictions for a readable image: the result
\* is of type 'unknown' and yet not the default
C12_Witness ==
    /\ last.op = "analyzeSpotImage"
    /\ last.source = "primary"
    /\ last.out[2].type = "unknown"
    /\ last.out[2].difficulty = "medium"
    /\ last.args.image.state = "readable"

\* C13: the result analyzeSpotImage returns is the one it returns under any
\* other fate of the notification request (delivered, rejected, or not
\* started), and every request the call started is still pending when it
\* returns.
C13_NotificationIndependent ==
    last.op = "analyzeSpotImage"
    => LET a == last.args IN
       /\ \A n \in Notifies :
             analyzeSpotImage(a.cfg, a.image, a.userEmail, a.r1, a.r2, a.rnd, n).out
                 = last.out
       /\ \A i \in DOMAIN last.mailed : last.mailed[i].state = "pending"

\* the notification of a returned analysis has been rejected
C13_Witness ==
    /\ last.op = "analyzeSpotImage"
    /\ last.args.notify = "rejected"
    /\ IsOk(last.out)
    /\ Len(mail) = 1
    /\ mail[1].state = "failed"

\* the point table as the specification words it: a feature scores when present
TablePoints(features) ==
    (IF ~Has(features, "height") THEN 0
     ELSE IF features.height > 200 THEN 6
     ELSE IF features.height > 150 THEN 5
     ELSE IF features.height > 100 THEN 4
     ELSE IF features.height > 50 THEN 2
     ELSE 1)
    + (IF ~Has(features, "angle") THEN 0
       ELSE IF features.angle > 45 THEN 3
       ELSE IF features.angle > 30 THEN 2
       ELSE IF features.angle > 15 THEN 1
       ELSE 0)
    + (IF ~Has(features, "length") THEN 0
       ELSE IF features.length > 1000 THEN 2
       ELSE IF features.length > 500 THEN 1
       ELSE 0)

TableRating(features) ==
    LET total == TablePoints(features) IN
    IF total >= 7 THEN "pro"
    ELSE IF total >= 5 THEN "hard"
    ELSE IF total >= 3 THEN "medium"
    ELSE "easy"

\* C14: for a features map whose height, angle and length are absent or
\* non-negative integers, rateDifficulty returns the rating of the point
\* table, and 'easy' for a map without the three.
C14_PointTable ==
    (last.op = "rateDifficulty" /\ last.args.spotFeatures # Null)
    => LET features == last.args.spotFeatures[1] IN
       /\ last.out = TableRating(features)
       /\ features = Obj => last.out = "easy"

\* C15 as stated: rateDifficulty with the features {height: 250} returns 'pro'.
C15_Original ==
    (last.op = "rateDifficulty" /\ last.args.spotFeatures = <<[height |-> 250]>>)
    => last.out = "pro"

\* C15, amended: rateDifficulty with the features {height: 250} returns
\* 'hard': a height above 200 scores 6 points, one short of 'pro'.
C15_Amended ==
    (last.op = "rateDifficulty" /\ last.args.spotFeatures = <<[height |-> 250]>>)
    => last.out = "hard"

C15_Witness ==
    /\ last.op = "rateDifficulty"
    /\ last.args.spotFeatures = <<[height |-> 250]>>
    /\ last.out \in {"easy", "medium", "hard", "pro"}

----------------------------------------------------------------------------
(* Distance runs: one getSpotsByDistance call over a table of spots stored *)
(* by createSpot at whole-degree places, one of them without coordinates.  *)

MaxNear == 3

Places == {[latitude |-> 0, longitude |-> 0], [latitude |-> 1, longitude |-> 1],
           [latitude |-> 0, longitude |-> 2], [latitude |-> 2, longitude |-> 1], Obj}

PlacedAt(f, n) ==
    UNION { createSpot({}, NoCache, "none", [name |-> "a", location |-> f[i]],
                       i, <<"iso", i>>, Env(FALSE, FALSE)).db : i \in 1..n }

\* the orders in which the datastore may return the rows of S
Orders(S) == {f \in [1..Cardinality(S) -> S] : \A r \in S : \E i \in DOMAIN f : f[i] = r}

Centers == {<<0, 0>>, <<1, 1>>}
Radii == {0, 111, 112, 158, 400}
Limits == {Null, <<0>>, <<1>>, <<2>>}

InitDistance ==
    /\ \E n \in 0..MaxNear : \E f \in [1..n -> Places] : db = PlacedAt(f, n)
    /\ cache = NoCache
    /\ redis = "none"
    /\ now = 0
    /\ nextId = 1
    /\ last = [op |-> "init"]
    /\ mail = <<>>
    /\ verifyCalls = {}
    /\ reviews = {}

GetSpotsByDistance ==
    /\ last.op = "init"
    /\ \E center \in Centers, radiusKm \in Radii, limit \in Limits,
          spotsData \in Orders(db), err \in BOOLEAN :
        last' = [op |-> "getSpotsByDistance",
                 args |-> [latitude |-> center[1], longitude |-> center[2],
                           radiusKm |-> radiusKm, limit |-> limit,
                           spotsData |-> spotsData, err |-> err],
                 out |-> getSpotsByDistance(spotsData, center[1], center[2], radiusKm,
                                            limit, err)]
    /\ UNCHANGED <<db, cache, redis, now, nextId, mail, verifyCalls, reviews>>

NextDistance == GetSpotsByDistance

SpecDistance == InitDistance /\ [][NextDistance]_vars

\* the distance of a stored row from the centre of the last call, in 1/100 km
DistanceFrom(row) ==
    calculateDistance(last.args.latitude, last.args.longitude,
                      NumberOf(row, "latitude"), NumberOf(row, "longitude"))

\* C16: getSpotsByDistance returns stored spots whose computed distance is
\* within the radius, in non-decreasing order of distance, at most limit of
\* them (10 by default), and no spot left out is in the radius and nearer
\* than a returned one or absent while the limit is not reached.
C16_NearestWithinRadius ==
    (last.op = "getSpotsByDistance" /\ IsOk(last.out))
    => LET res == last.out[2]
           limit == IF last.args.limit = Null THEN 10 ELSE last.args.limit[1]
           returned == {res[i].id : i \in DOMAIN res}
       IN /\ \A i \in DOMAIN res :
                /\ \E r \in db : r.id = res[i].id /\ DistanceFrom(r) = res[i].distance
                /\ res[i].distance <= last.args.radiusKm * 100
          /\ \A i, j \in DOMAIN res : i < j => res[i].distance <= res[j].distance
          /\ Cardinality(returned) = Len(res)
          /\ Len(res) <= limit
          /\ \A r \in db :
                (r.id \notin returned /\ DistanceFrom(r) <= last.args.radiusKm * 100)
                => /\ Len(res) = limit
                   /\ \A i \in DOMAIN res : res[i].distance <= DistanceFrom(r)

\* two spots are returned, a third in the radius is cut by the limit
C16_Witness ==
    /\ last.op = "getSpotsByDistance"
    /\ IsOk(last.out)
    /\ Len(last.out[2]) = 2
    /\ last.args.limit = <<2>>
    /\ last.out[2][1].distance < last.out[2][2].distance
    /\ Cardinality({r \in db : DistanceFrom(r) <= last.args.radiusKm * 100}) = 3

----------------------------------------------------------------------------
(* Moderation calls of SpotStorageService, and GET /spots.                 *)

\* the call returns updateSpot's promise: what updateSpot rejects with
\* passes through as it is
verifySpot(d, c, rd, id, timestamp, env) ==
    updateSpot(d, c, rd, id, [verified |-> TRUE], timestamp, env)

changeSpotStatus(d, c, rd, id, status, timestamp, env) ==
    updateSpot(d, c, rd, id, [status |-> status], timestamp, env)

updateSkateabilityScore(d, c, rd, id, score, timestamp, env) ==
    IF score < 0 \/ score > 10
    THEN Outcome(d, c, Throw(<<"Failed to update skateability score",
                               "Skateability score must be between 0 and 10">>),
                 0, 0, 0, FALSE)
    ELSE updateSpot(d, c, rd, id, [skateability_score |-> score], timestamp, env)

\* a numeral among the query parameters is a string of characters
Digits == {"0", "1", "2", "3", "4", "5", "6", "7", "8", "9"}

DigitValue(c) ==
    CASE c = "0" -> 0 [] c = "1" -> 1 [] c = "2" -> 2 [] c = "3" -> 3 [] c = "4" -> 4
      [] c = "5" -> 5 [] c = "6" -> 6 [] c = "7" -> 7 [] c = "8" -> 8 [] c = "9" -> 9

RECURSIVE LeadingDigits(_, _)
LeadingDigits(str, acc) ==
    IF str = <<>> \/ str[1] \notin Digits THEN acc
    ELSE LeadingDigits(Tail(str), acc * 10 + DigitValue(str[1]))

\* parseInt(str, 10) and parseFloat(str) of an unsigned numeral without a
\* fraction: the number its leading digits spell, NaN when there is none
parseInt(str) ==
    IF str = <<>> \/ str[1] \notin Digits THEN "NaN" ELSE LeadingDigits(str, 0)

parseFloat(str) == parseInt(str)

\* a numeral parameter that is given and not the empty string
TruthyParam(query, k) == Has(query, k) /\ query[k] # <<>>

\* parseInt(radius) / 1000, for a radius of whole kilometres
MetresToKm(m) == m \div 1000

\* the response to what getSpots came to: the page's rows, or the catch's 500
Respond(result) ==
    CHOOSE response \in
        { Merge(r, [out |-> IF IsOk(r.out)
                            THEN Http(200, [success |-> TRUE, data |-> r.out[2].data])
                            ELSE Http(500, "Failed to fetch spots")]) : r \in {result} } : TRUE

SpotController_getSpots(d, c, rd, query, env) ==
    LET base == Merge(Merge([limit |-> IF TruthyParam(query, "limit")
                                       THEN parseInt(query.limit) ELSE 20],
                            Only(query, {"sortBy", "userId"})),
                      IF TruthyStr(query, "type") THEN [type |-> query.type] ELSE Obj)
        near == IF TruthyParam(query, "latitude") /\ TruthyParam(query, "longitude")
                THEN [nearLocation |-> [latitude |-> parseFloat(query.latitude),
                                        longitude |-> parseFloat(query.longitude)],
                      radius |-> IF TruthyParam(query, "radius")
                                 THEN MetresToKm(parseInt(query.radius)) ELSE 50]
                ELSE Obj
        options == Merge(base, near)
    IN Respond(getSpots(d, c, rd, options, env))

\* router.get('/', spotController.getSpots): no middleware reads the headers
GetSpotsRoute(d, c, rd, request, env) ==
    SpotController_getSpots(d, c, rd, request.query, env)

----------------------------------------------------------------------------
(* Moderation runs: spots posted over every kind of Authorization header,  *)
(* then changed, verified, rescored and listed.                            *)

RouteHeaders ==
    Headers \cup
    { [authorization |-> <<"Basic", [text |-> "jwt", valid |-> TRUE,
                                     payload |-> [sub |-> "u1"]]>>],
      [authorization |-> <<"Bearer", [text |-> "jwt", valid |-> FALSE,
                                      payload |-> [sub |-> "u1"]]>>],
      [authorization |-> <<"Bearer", [text |-> "jwt", valid |-> TRUE,
                                      payload |-> [role |-> "user"]]>>] }

RouteDrafts ==
    { [name |-> "a", latitude |-> 1, longitude |-> 1],
      [name |-> "a", latitude |-> 1, longitude |-> 1, verified |-> TRUE],
      [name |-> "a", latitude |-> 1, longitude |-> 1, verified |-> FALSE, type |-> "rail"],
      [latitude |-> 1, longitude |-> 1] }

RoutePatches ==
    { [id |-> 2, created_at |-> <<"iso", 9>>, name |-> "b"],
      [id |-> 1, created_at |-> <<"iso", 0>>],
      [verified |-> TRUE] }

RouteQueries ==
    { Obj,
      [limit |-> <<"1">>, type |-> "rail"],
      [latitude |-> <<"1">>, longitude |-> <<"1">>, radius |-> <<"2", "0", "0", "0">>] }

\* a listing request comes with or without credentials
ListingHeaders == {h \in Headers : Has(h, "authorization") => h.authorization[2].valid}

Statuses == {"active", "archived"}
Scores == {7, 11}

InitModerate ==
    /\ db = {}
    /\ cache = NoCache
    /\ redis \in {"none", "ok"}
    /\ now = 0
    /\ nextId = 1
    /\ last = [op |-> "init"]
    /\ mail = <<>>
    /\ verifyCalls = {}
    /\ reviews = {}

VerifySpot ==
    /\ now < MaxClock
    /\ \E id \in 1..MaxSpots, errQ \in BOOLEAN, errW \in BOOLEAN :
        LET env == Env(errQ, errW)
            r == verifySpot(db, cache, redis, id, <<"iso", now>>, env)
        IN /\ db' = r.db
           /\ cache' = r.cache
           /\ last' = Log("verifySpot", [id |-> id], env, r)
           /\ verifyCalls' = verifyCalls \cup {id}
    /\ now' = now + 1
    /\ UNCHANGED <<redis, nextId, mail, reviews>>

ChangeSpotStatus ==
    /\ now < MaxClock
    /\ \E id \in 1..MaxSpots, status \in Statuses, errQ \in BOOLEAN, errW \in BOOLEAN :
        LET env == Env(errQ, errW)
            r == changeSpotStatus(db, cache, redis, id, status, <<"iso", now>>, env)
        IN /\ db' = r.db
           /\ cache' = r.cache
           /\ last' = Log("changeSpotStatus", [id |-> id, status |-> status], env, r)
    /\ now' = now + 1
    /\ UNCHANGED <<redis, nextId, mail, verifyCalls, reviews>>

UpdateSkateabilityScore ==
    /\ now < MaxClock
    /\ \E id \in 1..MaxSpots, score \in Scores, errQ \in BOOLEAN, errW \in BOOLEAN :
        LET env == Env(errQ, errW)
            r == updateSkateabilityScore(db, cache, redis, id, score, <<"iso", now>>, env)
        IN /\ db' = r.db
           /\ cache' = r.cache
           /\ last' = Log("updateSkateabilityScore", [id |-> id, score |-> score], env, r)
    /\ now' = now + 1
    /\ UNCHANGED <<redis, nextId, mail, verifyCalls, reviews>>

GetSpotsRequest ==
    \E headers \in ListingHeaders, query \in RouteQueries, errQ \in BOOLEAN :
        \E r \in {GetSpotsRoute(db, cache, redis, [headers |-> headers, query |-> query],
                                Env(errQ, FALSE))} :
           /\ db' = r.db
           /\ cache' = r.cache
           /\ last' = Log("GET /spots", [headers |-> headers, query |-> query],
                          Env(errQ, FALSE), r)
           /\ UNCHANGED <<redis, now, nextId, mail, verifyCalls, reviews>>

NextModerate ==
    \/ PostSpotAs(RouteHeaders, RouteDrafts)
    \/ UpdateSpotWith(RoutePatches)
    \/ VerifySpot
    \/ ChangeSpotStatus
    \/ UpdateSkateabilityScore
    \/ GetSpotsRequest

SpecModerate == InitModerate /\ [][NextModerate]_vars

----------------------------------------------------------------------------
(* Who can mark a spot verified.                                           *)

\* C17: in every reachable state a stored spot has verified = true only if
\* verifySpot was called for it, and the spot a POST /spots request has just
\* stored has verified = false whatever the body of the request said
C17_VerifiedOnlyByVerifySpot ==
    /\ \A r \in db : r.verified => r.id \in verifyCalls
    /\ (last.op = "POST /spots" /\ last.out[2] = 201) =>
           \A r \in db : r.id = last.args.id => ~r.verified

----------------------------------------------------------------------------
(* Identity of a stored spot.                                              *)

UpdateOps == {"updateSpot", "verifySpot", "changeSpotStatus", "updateSkateabilityScore"}

\* C18: a spot's id and created_at never change after creation: no step
\* removes or renames a stored id or changes a stored created_at, and
\* updateSpot, verifySpot, changeSpotStatus and updateSkateabilityScore leave
\* the stored ids as they were, whatever id or created_at the change carries
C18_IdentityKept ==
    [][ /\ {r.id : r \in db} \subseteq {r.id : r \in db'}
        /\ \A r \in db, q \in db' : r.id = q.id => q.created_at = r.created_at
        /\ last'.op \in UpdateOps =>
               /\ {r.id : r \in db'} = {r.id : r \in db}
               /\ Cardinality(db') = Cardinality(db) ]_vars

\* updateSpot has stored a change that carried another id and another created_at
C18_Witness ==
    /\ last.op = "updateSpot" /\ IsOk(last.out) /\ last.writes = 1
    /\ Has(last.args.spot, "id") /\ last.args.spot.id # last.args.id
    /\ Has(last.args.spot, "created_at")
    /\ last.out[2].id = last.args.id
    /\ last.out[2].created_at # last.args.spot.created_at

----------------------------------------------------------------------------
(* Which requests need a token.                                            *)

\* the header is missing, is not a Bearer header, or carries a token whose
\* signature does not verify
NoVerifiedToken(headers) ==
    \/ ~Has(headers, "authorization")
    \/ headers.authorization[1] # "Bearer"
    \/ ~headers.authorization[2].valid

\* the development token, in a development or test process
MockTokenAccepted(headers, env) ==
    /\ Has(headers, "authorization")
    /\ headers.authorization[1] = "Bearer"
    /\ headers.authorization[2].text = "mock-development-token"
    /\ env.NODE_ENV \in {"development", "test"}

\* GET /spots answers 200 or 500 whatever the headers, 200 when the query works
ListingServed ==
    last.op = "GET /spots" =>
        /\ last.out[2] \in {200, 500}
        /\ ~last.env.errQ => last.out[2] = 200

\* C19 as stated: a POST /spots request with a missing, malformed or
\* unverifiable bearer token is answered 401 and makes no datastore call,
\* and GET /spots is served without a token
C19_Original ==
    /\ (last.op = "POST /spots" /\ NoVerifiedToken(last.args.headers)) =>
           /\ last.out[2] = 401
           /\ last.writes = 0 /\ last.queries = 0
    /\ ListingServed

\* C19: a POST /spots request with a missing, malformed or unverifiable bearer
\* token is answered 401 by authenticate and makes no datastore call, except
\* for the token 'mock-development-token' when NODE_ENV is development or
\* test, which is let through as user test-user-123; GET /spots is served
\* without a token
C19_Amended ==
    /\ ( /\ last.op = "POST /spots"
         /\ NoVerifiedToken(last.args.headers)
         /\ ~MockTokenAccepted(last.args.headers, last.env) ) =>
           /\ last.out[2] = 401
           /\ last.out[3] \in {"Authentication required", "Invalid or expired token"}
           /\ last.writes = 0 /\ last.queries = 0
    /\ ListingServed

\* a POST /spots with a token that does not verify has been refused while a
\* spot is stored, its body one the validation would have refused
C19_Witness ==
    /\ last.op = "POST /spots"
    /\ Has(last.args.headers, "authorization")
    /\ last.args.headers.authorization[2].text = "jwt"
    /\ ~last.args.headers.authorization[2].valid
    /\ ~validate(last.args.spot)
    /\ last.out[2] = 401
    /\ db # {}

----------------------------------------------------------------------------
(* The difficulty the classifier path assigns.                             *)

\* the detection list the classifier path worked on
Detected == PredictionsOf(IF Posted(last.args.r1) THEN last.args.r1 ELSE last.args.r2)[2]

\* a detection whose class name the vocabulary maps to the given type
OfType(pred, type) == mapToSpotType(ClassOf(pred)) = Ok(type)

\* a detection of a flatground class: the vocabulary's 'flat' names
OfFlatground(pred) == includes(toLowerCase(pred.class), s_flat)

\* the rule table as the specification states it
TableDifficulty(type, predictions) ==
    IF \/ type \in {"rail", "stairs"}
       \/ \E i \in DOMAIN predictions : OfType(predictions[i], "gap")
    THEN "hard"
    ELSE IF type \in {"ledge", "manual pad"} THEN "medium"
    ELSE IF type = "other" /\ \E i \in DOMAIN predictions : OfFlatground(predictions[i])
    THEN "easy"
    ELSE "medium"

\* C20: on the classifier path the difficulty of the result is 'hard' when the
\* dominant type is rail or stairs or a detection of a gap class is present,
\* otherwise 'medium' when the type is ledge or manual pad, otherwise 'easy'
\* when the type is 'other' and a flatground detection is present, otherwise
\* 'medium'
C20_DifficultyTable ==
    (last.op = "analyzeSpotImage" /\ last.source = "primary") =>
        last.out[2].difficulty = TableDifficulty(last.out[2].type, Detected)

----------------------------------------------------------------------------
(* When the analysis-complete notification is sent.                        *)

\* C21: a call of analyzeSpotImage starts the analysis-complete notification
\* at most once, and only for a result of the classifier or of the fallback
\* generator: not when the default result is returned after both failed
C21_NotifiedOnlyOnResult ==
    last.op = "analyzeSpotImage" =>
        /\ last.attempts <= 1 /\ Len(last.mailed) <= 1
        /\ last.source = "default" => (last.attempts = 0 /\ last.mailed = <<>>)

----------------------------------------------------------------------------
(* analyzeSpotImage step by step: each await is a step of its own, so that *)
(* the requests to the classifier and the return of the call can be told   *)
(* apart.  The call in progress is kept in the log.                        *)

\* variant: a failed first request is not retried
AfterFirstRequest_NoRetry(r1) == IF Posted(r1) THEN "process" ELSE "fallback"

\* catch (primaryErr): a failed first request is sent again
AfterFirstRequest(r1) == IF Posted(r1) THEN "process" ELSE "post2"

\* a failed retry rejects analyzeWithRoboflow; analyzeSpotImage falls back
AfterRetry(r2) == IF Posted(r2) THEN "process" ELSE "fallback"

\* the answer a request that was never sent is given in the log
Unsent == <<"fail">>

InitClassify ==
    /\ db = {}
    /\ cache = NoCache
    /\ redis = "none"
    /\ now = 0
    /\ nextId = 1
    /\ last = [op |-> "init"]
    /\ mail = <<>>
    /\ verifyCalls = {}
    /\ reviews = {}

\* the call starts: the configuration check, and readFileSync of the image
StartAnalysis ==
    /\ last.op = "init"
    /\ \E cfg \in Configs, image \in Images, rnd \in Draws, notify \in Notifies :
        last' = [op |-> "analyzing",
                 pc |-> IF Configured(cfg) /\ IsOk(readFileSync(image))
                        THEN "post1" ELSE "fallback",
                 args |-> [cfg |-> cfg, image |-> image, userEmail |-> "rider@example.com",
                           r1 |-> Unsent, r2 |-> Unsent, rnd |-> rnd, notify |-> notify],
                 posts |-> 0]
    /\ UNCHANGED <<db, cache, redis, now, nextId, mail, verifyCalls, reviews>>

\* the first POST is answered, fails or times out
FirstRequestCompletes ==
    /\ last.op = "analyzing" /\ last.pc = "post1"
    /\ \E r1 \in Responses :
        last' = [last EXCEPT !.args.r1 = r1, !.posts = 1, !.pc = AfterFirstRequest(r1)]
    /\ UNCHANGED <<db, cache, redis, now, nextId, mail, verifyCalls, reviews>>

\* the second POST is answered, fails or times out
RetryCompletes ==
    /\ last.op = "analyzing" /\ last.pc = "post2"
    /\ \E r2 \in Retries :
        last' = [last EXCEPT !.args.r2 = r2, !.posts = 2, !.pc = AfterRetry(r2)]
    /\ UNCHANGED <<db, cache, redis, now, nextId, mail, verifyCalls, reviews>>

\* the rest of the call runs without waiting: the answer is processed, or the
\* fallback generator or the catch block gives the result, and the finally
\* block starts the notification
ReturnAnalysis ==
    /\ last.op = "analyzing" /\ last.pc \in {"process", "fallback"}
    /\ \E r \in {analyzeSpotImage(last.args.cfg, last.args.image, last.args.userEmail,
                                 last.args.r1, last.args.r2, last.args.rnd,
                                 last.args.notify)} :
        /\ last' = Merge([op |-> "analyzeSpotImage", args |-> last.args, sent |-> last.posts],
                         r)
        /\ mail' = mail \o r.mailed
    /\ UNCHANGED <<db, cache, redis, now, nextId, verifyCalls, reviews>>

NextClassify ==
    \/ StartAnalysis
    \/ FirstRequestCompletes
    \/ RetryCompletes
    \/ ReturnAnalysis
    \/ NotificationSettles

SpecClassify == InitClassify /\ [][NextClassify]_vars

\* each request completes or times out (timeout: 20000), and the code between
\* two awaits runs to the next one
SpecClassifyFair == SpecClassify /\ WF_vars(NextClassify)

----------------------------------------------------------------------------
(* The requests analyzeSpotImage sends to the classifier.                  *)

\* the answer the classifier path worked on
Answer == IF Posted(last.args.r1) THEN last.args.r1 ELSE last.args.r2

\* a request was answered, but no result can be computed from its body
Unprocessable ==
    /\ Posted(Answer)
    /\ \/ ~IsOk(PredictionsOf(Answer))
       \/ ~IsOk(processRoboflowPredictions(PredictionsOf(Answer)[2], last.args.image.path))

\* at most two requests, the second only after the first failed, and the
\* result of the classifier returned as it was computed
RequestsBounded ==
    /\ last.op = "analyzing" => last.posts \in 0..2
    /\ last.op = "analyzeSpotImage" =>
           /\ last.sent \in 0..2 /\ last.sent = last.posts
           /\ last.sent = 2 => ~Posted(last.args.r1)
           /\ last.source = "primary" =>
                  /\ last.sent >= 1
                  /\ last.out = processRoboflowPredictions(PredictionsOf(Answer)[2],
                                                           last.args.image.path)
                  /\ last.out[2].difficulty = MapDifficulty(last.out[2].type, Detected)

BothRequestsFailed ==
    last.sent = 2 /\ ~Posted(last.args.r1) /\ ~Posted(last.args.r2)

Returns == (last.op = "analyzing") ~> (last.op = "analyzeSpotImage")

\* C22 as stated: at most two requests to the classifier per call, the second
\* only after the first failed; the classifier's result is returned unchanged
\* when either succeeds; the fallback generator is used only when the
\* classifier is not configured or both requests failed; the call returns
C22_Original ==
    /\ [](RequestsBounded
          /\ ((last.op = "analyzeSpotImage" /\ last.source = "fallback") =>
                  (~Configured(last.args.cfg) \/ BothRequestsFailed)))
    /\ Returns

\* C22: at most two requests to the classifier per call, the second only
\* after the first failed; the classifier's result is returned unchanged when
\* one is computed; the fallback generator is used only when the classifier is
\* not configured, both requests failed, or a request was answered with a body
\* no result can be computed from; the call returns
C22_Amended ==
    /\ [](RequestsBounded
          /\ ((last.op = "analyzeSpotImage" /\ last.source = "fallback") =>
                  (~Configured(last.args.cfg) \/ BothRequestsFailed \/ Unprocessable)))
    /\ Returns

\* the first request failed and the retry was answered: its result is returned
C22_Witness ==
    /\ last.op = "analyzeSpotImage" /\ last.source = "primary"
    /\ last.sent = 2 /\ ~Posted(last.args.r1) /\ Posted(last.args.r2)

----------------------------------------------------------------------------
(* Cache keys of getSpots.  An options object is written here as the list  *)
(* of its entries, in the order the caller set them: JSON.stringify keeps  *)
(* that order, the destructuring of getSpots does not depend on it.        *)

\* the object with the given entries
ObjectOf(entries) ==
    [k \in {entries[i][1] : i \in DOMAIN entries} |->
        entries[CHOOSE i \in DOMAIN entries : entries[i][1] = k][2]]

\* JSON.stringify(options): the entries in insertion order
JSONstringifyEntries(entries) == <<"json", entries>>

OptionEntries ==
    { <<>>,
      <<<<"page", 1>>>>,
      <<<<"limit", 20>>>>,
      <<<<"page", 1>>, <<"limit", 20>>>>,
      <<<<"status", "active">>>>,
      <<<<"sortBy", "created_at">>, <<"sortOrder", "desc">>>>,
      <<<<"type", "rail">>, <<"limit", 1>>>>,
      <<<<"limit", 1>>, <<"type", "rail">>>>,
      <<<<"limit", 1>>>>,
      <<<<"status", "archived">>>> }

InitKeys ==
    /\ \E n \in 0..MaxSpots, archived \in 0..1 : db = Populate(n + archived, archived)
    /\ cache = NoCache
    /\ redis = "ok"
    /\ now = 0
    /\ nextId = 1
    /\ last = [op |-> "init"]
    /\ mail = <<>>
    /\ verifyCalls = {}
    /\ reviews = {}

\* a getSpots call; the log keeps the call before it
GetSpotsEntries ==
    /\ now < MaxClock
    /\ \E entries \in OptionEntries :
        \E r \in {getSpotsWithKey(db, cache, redis, ObjectOf(entries),
                                  JSONstringifyEntries(entries), Env(FALSE, FALSE))} :
            /\ db' = r.db
            /\ cache' = r.cache
            /\ last' = [Log("getSpots", ObjectOf(entries), Env(FALSE, FALSE), r) EXCEPT
                            !.prev = IF last.op = "getSpots"
                                     THEN <<[args |-> last.args, out |-> last.out]>>
                                     ELSE Null]
    /\ now' = now + 1
    /\ UNCHANGED <<redis, nextId, mail, verifyCalls, reviews>>

NextKeys == GetSpotsEntries

SpecKeys == InitKeys /\ [][NextKeys]_vars

\* the query an options object denotes: the defaults of getSpots filled in
Normalized(options) ==
    Merge([page |-> DefaultPage, limit |-> DefaultLimit, status |-> "active",
           sortBy |-> "created_at", sortOrder |-> "desc"], options)

\* C23: of two getSpots calls in a row whose options denote the same
\* normalized query (the same fields in another order, or a default spelled
\* out by one and left out by the other), the second is served from the cache
\* entry the first stored
C23_SameQuerySameKey ==
    ( /\ last.op = "getSpots" /\ last.prev # Null
      /\ IsOk(last.prev[1].out)
      /\ Normalized(last.prev[1].args) = Normalized(last.args) ) =>
        /\ last.hit /\ last.queries = 0
        /\ last.out = last.prev[1].out

----------------------------------------------------------------------------
(* What the read calls change.                                             *)

ReadOps == {"getSpots", "getSpotById"}

\* the log of a read: no datastore write; nothing asked of the datastore or
\* written to the cache on a hit; a cache write only after a query that
\* succeeded and, for getSpotById, found the row
ReadLogged ==
    last.op \in ReadOps =>
        /\ last.writes = 0
        /\ last.hit => (last.sets = 0 /\ last.queries = 0)
        /\ last.sets > 0 =>
               /\ last.sets = 1 /\ ~last.hit /\ last.queries = 1
               /\ ~last.env.errQ /\ IsOk(last.out) /\ last.out[2] # Null

\* C24: getSpots and getSpotById never insert, update or delete datastore
\* rows; on a cache hit they write nothing to the cache and ask nothing of the
\* datastore; the only cache write they make is on the miss path after a
\* successful query, and it adds or replaces one entry
C24_ReadsOnlyFillCache ==
    [][ /\ ReadLogged'
        /\ last'.op \in ReadOps =>
               /\ db' = db
               /\ cache' # cache =>
                      /\ last'.sets = 1
                      /\ \E key \in DOMAIN cache' :
                             /\ DOMAIN cache' = DOMAIN cache \cup {key}
                             /\ \A k \in DOMAIN cache : k # key => cache'[k] = cache[k] ]_vars

\* a read has been served from the cache while the table holds a spot
C24_Witness ==
    /\ last.op \in ReadOps /\ last.hit /\ IsOk(last.out)
    /\ db # {} /\ cache # NoCache

----------------------------------------------------------------------------
(* Reads after a write.                                                    *)

\* the read that follows shows what the write left: the spot as updateSpot
\* returned it, nothing of a deleted spot
FreshAfterWrite ==
    /\ (last.op = "updateSpot" /\ IsOk(last.out)) =>
           /\ (last'.op = "getSpotById" /\ last'.args = last.args.id /\ IsOk(last'.out)) =>
                  last'.out[2] = <<last.out[2]>>
           /\ (last'.op = "getSpots" /\ IsOk(last'.out)) =>
                  \A i \in DOMAIN last'.out[2].data :
                      last'.out[2].data[i].id = last.args.id =>
                          last'.out[2].data[i] = last.out[2]
    /\ (last.op = "deleteSpot" /\ IsOk(last.out)) =>
           /\ (last'.op = "getSpotById" /\ last'.args = last.args.id /\ IsOk(last'.out)) =>
                  last'.out[2] = Null
           /\ (last'.op = "getSpots" /\ IsOk(last'.out)) =>
                  \A i \in DOMAIN last'.out[2].data :
                      last'.out[2].data[i].id # last.args.id

----------------------------------------------------------------------------
(* A read racing a write.  Every await of getSpots / getSpotById and of     *)
(* createSpot / updateSpot / deleteSpot is a step of its own; the two calls *)
(* in flight, with their positions, are kept in the log.                   *)

\* a call that has not been made yet
NotCalled == [pc |-> "idle"]

RaceQueries == {Obj, [verified |-> FALSE]}
RaceDrafts == {[name |-> "a", latitude |-> 1, longitude |-> 1],
               [name |-> "b", location |-> [latitude |-> 1, longitude |-> 2]]}

\* `spot:${id}` or `spots:${JSON.stringify(options)}`
ReadKey(read) ==
    IF read.name = "getSpotById" THEN <<"spot", read.args>>
    ELSE <<"spots", JSONstringify(read.args)>>

InitRace ==
    /\ \E n \in 1..MaxSpots : db = Populate(n, 0) /\ nextId = n + 1 /\ now = n + 1
    /\ cache = NoCache
    /\ redis = "ok"
    /\ mail = <<>>
    /\ verifyCalls = {}
    /\ reviews = {}
    /\ last = [op |-> "calls", read |-> NotCalled, write |-> NotCalled]

Race(read, write) ==
    /\ last' = [op |-> "calls", read |-> read, write |-> write]
    /\ UNCHANGED <<redis, now, mail, verifyCalls, reviews>>

\* a caller invokes getSpotById(1) or getSpots(options)
ReadStarts ==
    /\ last.read.pc = "idle"
    /\ \/ Race([name |-> "getSpotById", args |-> 1, pc |-> "getCache"], last.write)
       \/ \E options \in RaceQueries :
              Race([name |-> "getSpots", args |-> options, pc |-> "getCache"], last.write)
    /\ UNCHANGED <<db, cache, nextId>>

\* await getCache(key): a hit is returned at once
ReadLooksUp ==
    /\ last.read.pc = "getCache"
    /\ \E cached \in {getCache(cache, redis, ReadKey(last.read))} :
          IF cached[2] # Null
          THEN Race(Merge(last.read, [pc |-> "done", hit |-> TRUE, value |-> cached[2][1]]),
                    last.write)
          ELSE Race(Merge(last.read, [pc |-> "query"]), last.write)
    /\ UNCHANGED <<db, cache, nextId>>

\* await the datastore query; its formatted answer is held by the call
ReadQueries ==
    /\ last.read.pc = "query"
    /\ \E r \in {IF last.read.name = "getSpotById"
                 THEN getSpotById(db, NoCache, "none", last.read.args, Env(FALSE, FALSE))
                 ELSE getSpots(db, NoCache, "none", last.read.args, Env(FALSE, FALSE))} :
          IF r.sets = 1
          THEN Race(Merge(last.read,
                          [pc |-> "setCache", hit |-> FALSE,
                           value |-> IF last.read.name = "getSpotById"
                                     THEN r.out[2][1] ELSE r.out[2]]),
                    last.write)
          ELSE Race(Merge(last.read, [pc |-> "done", hit |-> FALSE]), last.write)
    /\ UNCHANGED <<db, cache, nextId>>

\* await setCache(cacheKey, result, this.cacheTTL), and the result is returned
ReadStores ==
    /\ last.read.pc = "setCache"
    /\ cache' = setCache(cache, redis, ReadKey(last.read), last.read.value)
    /\ Race(Merge(last.read, [pc |-> "done"]), last.write)
    /\ UNCHANGED <<db, nextId>>

\* a caller invokes createSpot(draft), updateSpot(1, patch) or deleteSpot(1)
WriteStarts ==
    /\ last.write.pc = "idle"
    /\ \/ \E spot \in RaceDrafts :
              Race(last.read, [name |-> "createSpot", args |-> spot, pc |-> "datastore"])
       \/ \E spot \in Patches :
              Race(last.read,
                   [name |-> "updateSpot", id |-> 1, args |-> spot, pc |-> "getSpotById"])
       \/ Race(last.read, [name |-> "deleteSpot", id |-> 1, pc |-> "getSpotById"])
    /\ UNCHANGED <<db, cache, nextId>>

\* const existingSpot = await this.getSpotById(id)
WriteChecks ==
    /\ last.write.pc = "getSpotById"
    /\ \E r \in {getSpotById(db, cache, redis, last.write.id, Env(FALSE, FALSE))} :
          /\ cache' = r.cache
          /\ Race(last.read,
                  Merge(last.write,
                        [pc |-> IF IsOk(r.out) /\ r.out[2] # Null
                                THEN "datastore" ELSE "done"]))
    /\ UNCHANGED <<db, nextId>>

\* await the insert, update or delete
WriteToDatastore ==
    /\ last.write.pc = "datastore"
    /\ \E r \in {IF last.write.name = "createSpot"
                 THEN createSpot(db, NoCache, "none", last.write.args, nextId,
                                 <<"iso", now>>, Env(FALSE, FALSE))
                 ELSE IF last.write.name = "updateSpot"
                 THEN updateSpot(db, NoCache, "none", last.write.id, last.write.args,
                                 <<"iso", now>>, Env(FALSE, FALSE))
                 ELSE deleteSpot(db, NoCache, "none", last.write.id, Env(FALSE, FALSE))} :
          /\ db' = r.db
          /\ nextId' = IF last.write.name = "createSpot" THEN nextId + 1 ELSE nextId
          /\ Race(last.read,
                  Merge(last.write,
                        [pc |-> IF IsOk(r.out)
                                THEN IF last.write.name = "createSpot"
                                     THEN "invalidateSpotCaches" ELSE "deleteCache"
                                ELSE "done",
                         wrote |-> r.db # db]))
    /\ UNCHANGED cache

\* await deleteCache(`spot:${id}`)
WriteDeletesEntry ==
    /\ last.write.pc = "deleteCache"
    /\ cache' = deleteCache(cache, redis, <<"spot", last.write.id>>)
    /\ Race(last.read, Merge(last.write, [pc |-> "invalidateSpotCaches"]))
    /\ UNCHANGED <<db, nextId>>

\* await this.invalidateSpotCaches(), and the call returns
WriteInvalidates ==
    /\ last.write.pc = "invalidateSpotCaches"
    /\ cache' = invalidateSpotCaches(cache, redis)
    /\ Race(last.read, Merge(last.write, [pc |-> "done"]))
    /\ UNCHANGED <<db, nextId>>

NextRace ==
    \/ ReadStarts
    \/ ReadLooksUp
    \/ ReadQueries
    \/ ReadStores
    \/ WriteStarts
    \/ WriteChecks
    \/ WriteToDatastore
    \/ WriteDeletesEntry
    \/ WriteInvalidates

SpecRace == InitRace /\ [][NextRace]_vars

\* what a read of the key's spot or list would compute from the datastore now
Recomputed(key) ==
    IF key[1] = "spot"
    THEN getSpotById(db, NoCache, "none", key[2], Env(FALSE, FALSE)).out
    ELSE Ok(<<getSpots(db, NoCache, "none", JSONparse(key[2]), Env(FALSE, FALSE)).out[2]>>)

\* C26: once a read and a concurrent write have both completed, under every
\* interleaving of their steps, each 'spot:<id>' and 'spots:*' entry in the
\* cache is what the datastore now yields: no entry computed from the state
\* that preceded the write is left behind
C26_NoStaleEntryAfterRace ==
    (last.op = "calls" /\ last.read.pc = "done" /\ last.write.pc = "done") =>
        \A key \in DOMAIN cache : Recomputed(key) = Ok(<<JSONparse(cache[key])>>)

----------------------------------------------------------------------------
(* Drafts with a name and coordinates in range.                            *)

\* the coordinates a draft gives: its nested location, or else its flat fields
GivenCoords(spot) == IF Has(spot, "location") THEN spot.location ELSE spot

InRange(o) ==
    /\ Has(o, "latitude") /\ o.latitude \in -90..90
    /\ Has(o, "longitude") /\ o.longitude \in -180..180

\* C27: for a draft with a name and coordinates in range, latitude 0 and
\* longitude 0 included, createSpot stores the spot and returns it unless the
\* datastore fails; createSpot never stores a row and then reports a failure;
\* and getSpots succeeds over a table whose rows all have coordinates in range
C27_InRangeDraftCreated ==
    /\ (/\ last.op = "createSpot"
        /\ TruthyStr(last.args.spot, "name")
        /\ InRange(GivenCoords(last.args.spot))
        /\ ~last.env.errW)
       => /\ IsOk(last.out)
          /\ \E r \in db : r.id = last.args.id
    /\ last.op = "createSpot" =>
           ~(~IsOk(last.out) /\ \E r \in db : r.id = last.args.id)
    /\ (/\ last.op = "getSpots"
        /\ ~last.env.errQ
        /\ \A r \in db : InRange(r))
       => IsOk(last.out)

----------------------------------------------------------------------------
(* SocialService: reviews and the spot rating derived from them.  A review *)
(* row is [id, spot_id, user_id, rating]; a NULL column is an absent field. *)

MaxReviews == 2

\* the string `spots:${spotId}`: no list key, whose text after 'spots:' is JSON
RatingCacheKey(spotId) == <<"spots", <<"id", spotId>>>>

RECURSIVE SumRatings(_)
\* reviews.reduce((total, review) => total + review.rating, 0)
SumRatings(rows) ==
    IF rows = {} THEN 0
    ELSE LET r == CHOOSE x \in rows : TRUE IN r.rating + SumRatings(rows \ {r})

\* .from('spots').update({ skateability_score: null }).eq('id', id)
DbSetNull(d, id, column) ==
    {IF r.id = id THEN Without(r, {column}) ELSE r : r \in d}

\* .from('spots').update({ skateability_score: average }).eq('id', id)
DbSetScore(d, id, average) ==
    {IF r.id = id THEN Merge(r, [skateability_score |-> average]) ELSE r : r \in d}

\* the outcome of updateSpotRating: the spots table and the cache it leaves
updateSpotRating(rv, d, c, rd, spotId, env) ==
    LET found == {r \in rv : r.spot_id = spotId}
        average == Round(SumRatings(found), Cardinality(found))
    IN IF env.errQ
       THEN [db |-> d, cache |-> c, out |-> Throw(<<"Failed to get ratings", "db-message">>)]
       ELSE IF found = {}
       THEN [db |-> IF env.errW THEN d ELSE DbSetNull(d, spotId, "skateability_score"),
             cache |-> c, out |-> Ok(Null)]
       ELSE IF env.errW
       THEN [db |-> d, cache |-> c,
             out |-> Throw(<<"Failed to update spot rating", "db-message">>)]
       ELSE [db |-> DbSetScore(d, spotId, average),
             cache |-> deleteCache(c, rd, RatingCacheKey(spotId)),
             out |-> Ok(Null)]

\* clearCachePattern(`reviews:spot:${spotId}:*`) and (`reviews:user:${userId}:*`)
clearReviewCaches(c, rd) == clearCachePattern(c, rd, "reviews")

\* the outcome of a review call: the reviews and spots tables and the cache it
\* leaves, and what it returns or throws
addReview(rv, d, c, rd, spotId, userId, rating, id, env) ==
    LET existing == {r \in rv : r.spot_id = spotId /\ r.user_id = userId}
        data == IF existing # {}
                THEN Merge(CHOOSE r \in existing : TRUE, [rating |-> rating])
                ELSE [id |-> id, spot_id |-> spotId, user_id |-> userId, rating |-> rating]
        saved == (rv \ existing) \cup {data}
        rated == updateSpotRating(saved, d, c, rd, spotId, env.rating)
    IN IF env.errQ
       THEN [reviews |-> rv, db |-> d, cache |-> c,
             out |-> Throw(<<"Failed to check existing review", "db-message">>)]
       ELSE IF env.errW
       THEN [reviews |-> rv, db |-> d, cache |-> c,
             out |-> Throw(<<"Failed to save review", "db-message">>)]
       ELSE IF ~IsOk(rated.out)
       THEN [reviews |-> saved, db |-> rated.db, cache |-> rated.cache, out |-> rated.out]
       ELSE [reviews |-> saved, db |-> rated.db,
             cache |-> clearReviewCaches(rated.cache, rd), out |-> Ok(data)]

deleteReview(rv, d, c, rd, reviewId, env) ==
    LET found == {r \in rv : r.id = reviewId}
        review == CHOOSE r \in found : TRUE
        left == rv \ found
        rated == updateSpotRating(left, d, c, rd, review.spot_id, env.rating)
    IN IF env.errQ
       THEN [reviews |-> rv, db |-> d, cache |-> c,
             out |-> Throw(<<"Failed to get review", "db-message">>)]
       ELSE IF found = {}
       THEN [reviews |-> rv, db |-> d, cache |-> c, out |-> Ok(FALSE)]
       ELSE IF env.errW
       THEN [reviews |-> rv, db |-> d, cache |-> c,
             out |-> Throw(<<"Failed to delete review", "db-message">>)]
       ELSE IF ~IsOk(rated.out)
       THEN [reviews |-> left, db |-> rated.db, cache |-> rated.cache, out |-> rated.out]
       ELSE [reviews |-> left, db |-> rated.db,
             cache |-> clearReviewCaches(rated.cache, rd), out |-> Ok(TRUE)]

----------------------------------------------------------------------------
(* Review runs: reviews added and deleted for stored spots, and the spots  *)
(* read by ID and listed in between.                                       *)

Reviewers == {"u1", "u2"}
Ratings == {2, 9}
ReviewQueries == {[minSkateabilityScore |-> 6]}

InitReview ==
    /\ \E n \in 1..MaxSpots : db = Populate(n, 0) /\ nextId = n + 1
    /\ cache = NoCache
    /\ redis = "ok"
    /\ now = 0
    /\ last = [op |-> "init"]
    /\ mail = <<>>
    /\ verifyCalls = {}
    /\ reviews = {}

\* what the spot's row holds as skateability_score: <<score>>, or null
StoredScore(d, spotId) ==
    IF \E r \in d : r.id = spotId /\ Has(r, "skateability_score")
    THEN <<(CHOOSE r \in d : r.id = spotId).skateability_score>>
    ELSE Null

ReviewLog(op, spotId, r) ==
    [op |-> op, spot |-> spotId, out |-> r.out,
     changed |-> StoredScore(r.db, spotId) # StoredScore(db, spotId)]

AddReview ==
    /\ nextId <= MaxSpots + MaxReviews
    /\ \E spotId \in 1..MaxSpots, userId \in Reviewers, rating \in Ratings,
          errW \in BOOLEAN :
          \E r \in {addReview(reviews, db, cache, redis, spotId, userId, rating, nextId,
                              Merge(Env(FALSE, FALSE), [rating |-> Env(FALSE, errW)]))} :
              /\ reviews' = r.reviews
              /\ db' = r.db
              /\ cache' = r.cache
              /\ last' = ReviewLog("addReview", spotId, r)
    /\ nextId' = nextId + 1
    /\ UNCHANGED <<redis, now, mail, verifyCalls>>

DeleteReview ==
    /\ \E review \in reviews :
          \E r \in {deleteReview(reviews, db, cache, redis, review.id,
                                 Merge(Env(FALSE, FALSE), [rating |-> Env(FALSE, FALSE)]))} :
              /\ reviews' = r.reviews
              /\ db' = r.db
              /\ cache' = r.cache
              /\ last' = ReviewLog("deleteReview", review.spot_id, r)
    /\ UNCHANGED <<redis, now, nextId, mail, verifyCalls>>

NextReview ==
    \/ AddReview
    \/ DeleteReview
    \/ GetSpotById
    \/ GetSpots(ReviewQueries)

SpecReview == InitReview /\ [][NextReview]_vars

\* the spot as returned carries the score the datastore holds for it
ScoreAsStored(spot) ==
    StoredScore(db', spot.id) =
        IF Has(spot, "skateability_score") THEN <<spot.skateability_score>> ELSE Null

\* C28: when addReview or deleteReview has changed a spot's skateability_score
\* in the datastore, the getSpotById or getSpots call that follows returns the
\* spot with the new score, not the one cached before the change
C28_RatingInvalidatesSpot ==
    [][(last.op \in {"addReview", "deleteReview"} /\ last.changed) =>
          /\ (/\ last'.op = "getSpotById" /\ last'.args = last.spot
              /\ IsOk(last'.out) /\ last'.out[2] # Null)
             => ScoreAsStored(last'.out[2][1])
          /\ (last'.op = "getSpots" /\ IsOk(last'.out)) =>
                 \A i \in DOMAIN last'.out[2].data :
                     last'.out[2].data[i].id = last.spot =>
                         ScoreAsStored(last'.out[2].data[i])]_vars

\* C29: in every getSpots result, geospatial ones included, total is the
\* number of spots that match the filters, so that the page holds at most
\* total spots and totalPages is at least 1 whenever the page is not empty
C29_TotalCountsMatches ==
    (last.op = "getSpots" /\ IsOk(last.out)) =>
        /\ Len(last.out[2].data) <= last.out[2].total
        /\ last.out[2].data # <<>> => last.out[2].totalPages >= 1
        /\ ~last.hit =>
               last.out[2].total =
                   Cardinality({r \in QueryBase(db, last.args) : RowMatches(r, last.args)})

----------------------------------------------------------------------------
(* Logout: blacklistToken, and authenticate on requests bearing the token. *)
(* A token here is [text, signed, payload]; the clock counts seconds.      *)

MaxLogoutClock == 3

LogoutTokens ==
    { [text |-> "jwt-a", signed |-> TRUE, payload |-> [sub |-> "u1", exp |-> 2]],
      [text |-> "jwt-b", signed |-> TRUE, payload |-> [userId |-> "u2", exp |-> 3]],
      [text |-> "jwt-c", signed |-> TRUE, payload |-> [sub |-> "u3"]],
      [text |-> "jwt-d", signed |-> FALSE, payload |-> [sub |-> "u1", exp |-> 3]] }

\* jwt.verify(token, env.JWT_SECRET) at the given second: the signature
\* verifies and the token has not expired
Verifies(token, time) ==
    token.signed /\ (Has(token.payload, "exp") => time < token.payload.exp)

\* the Authorization header of a request bearing the token at the given second
Bearing(token, time) ==
    [authorization |-> <<"Bearer", [text |-> token.text, valid |-> Verifies(token, time),
                                    payload |-> token.payload]>>]

BlacklistKey(text) == <<"blacklist", text>>

\* the cache blacklistToken leaves
blacklistToken(c, rd, token, time) ==
    IF ~TruthyNum(token.payload, "exp") THEN c
    ELSE IF token.payload.exp - time > 0
    THEN setCache(c, rd, BlacklistKey(token.text), TRUE)
    ELSE c

InitLogout ==
    /\ db = {}
    /\ cache = NoCache
    /\ redis \in {"none", "ok"}
    /\ now = 0
    /\ nextId = 1
    /\ last = [op |-> "init"]
    /\ mail = <<>>
    /\ verifyCalls = {}
    /\ reviews = {}

BlacklistToken ==
    /\ \E token \in LogoutTokens :
          /\ cache' = blacklistToken(cache, redis, token, now)
          /\ last' = [op |-> "blacklistToken", args |-> token.text]
    /\ UNCHANGED <<db, redis, now, nextId, mail, verifyCalls, reviews>>

\* a request bearing the token reaches authenticate
Authenticate ==
    /\ \E token \in LogoutTokens, mode \in {"production", "development"} :
          last' = [op |-> "authenticate", args |-> token.text, mode |-> mode,
                   blacklisted |-> BlacklistKey(token.text) \in DOMAIN cache,
                   out |-> authenticate(Bearing(token, now), mode)]
    /\ UNCHANGED <<db, cache, redis, now, nextId, mail, verifyCalls, reviews>>

\* a second passes; Redis drops the entries whose TTL (exp - now at the time
\* of the call) has run out
SecondPasses ==
    /\ now < MaxLogoutClock
    /\ now' = now + 1
    /\ cache' = [k \in {x \in DOMAIN cache :
                          \E t \in LogoutTokens :
                              x = BlacklistKey(t.text) /\ t.payload.exp > now + 1}
                 |-> cache[k]]
    /\ UNCHANGED <<db, redis, nextId, last, mail, verifyCalls, reviews>>

NextLogout ==
    \/ BlacklistToken
    \/ Authenticate
    \/ SecondPasses

SpecLogout == InitLogout /\ [][NextLogout]_vars

\* C30: once blacklistToken(t) has stored t in the blacklist, and until the
\* entry expires with t, authenticate rejects every request bearing t
C30_BlacklistedRejected ==
    (last.op = "authenticate" /\ last.blacklisted) => ~IsOk(last.out)

====
